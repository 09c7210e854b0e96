------------------------------ MODULE LinuxProofs ------------------------------
(***************************************************************************)
(* What a Linux image gets from the loader and does with it: the rewritten *)
(* boot menu fits its block, is lost only to a path longer than any        *)
(* sensible one, and has each of its entries ready; the premount init      *)
(* leaves no loop device behind, misses no image and mounts the stick it   *)
(* was told of.                                                            *)
(***************************************************************************)
EXTENDS GrubPatch, Premount, LoaderFacts, FiniteSetTheorems

-----------------------------------------------------------------------------
(* The boot menu.                                                          *)

Stages == {"read", "unchanged", "prefix", "copy", "line", "eol", "done", "panic"}

EndOf(n) == IF n = 0 THEN 0 ELSE menu[n].end

\* What the first n lines take in the output, at most.
Need(n) == Prefix + EndOf(n) + Extra(n)

\* The same while line n is copied and nothing has been put into it.
Before(n) == Need(n - 1) + LenOf(menu[n])

Capacity == Size(menu) + Extra(Len(menu)) + 256

Inputs == /\ menu \in Menus /\ kind \in BootKinds /\ loc \in Locations
          /\ name \in ArchiveNames

\* Between two lines the output holds at most what its lines need; within one,
\* what it needed before, the line, and what has been put into it.
Budget ==
  /\ stage \in Stages /\ k \in 0..Len(menu) /\ dst \in Int /\ cap \in Nat
  /\ stage \in {"read", "prefix"} => k = 0 /\ dst = 0
  /\ stage \notin {"read", "unchanged"} => cap = Capacity
  /\ stage \in {"line", "eol", "panic"} => k > 0
  /\ \A n \in 0..Len(menu) : n = k /\ stage \in {"copy", "done"} => dst <= Need(n)
  /\ \A n \in 1..Len(menu) : n = k =>
       /\ stage \in {"line", "panic"} => dst <= Before(n)
       /\ stage = "eol" => /\ menu[n].key = "linux" /\ eol_extra > 0
                           /\ dst <= Before(n) + linux_extra
  /\ stage = "panic" => linux_extra = 0

PatchInv == Inputs /\ Budget

-----------------------------------------------------------------------------
(* Arithmetic of the counts. *)

LEMMA Product ==
  ASSUME NEW a \in Nat, NEW b \in Nat, NEW c \in Nat
  PROVE  /\ a * c \in Nat
         /\ (a + 1) * c = a * c + c
         /\ a <= b => a * c <= b * c
<1>1. a * c \in Nat /\ (a + 1) * c = a * c + c
  OBVIOUS
<1>2. ASSUME a <= b PROVE a * c <= b * c
  <2>1. PICK d \in Nat : b = a + d
    BY <1>2
  <2>2. b * c = a * c + d * c /\ d * c \in Nat
    BY <2>1
  <2> QED
    BY <2>2
<1> QED
  BY <1>1, <1>2

LEMMA Lengths ==
  ASSUME Inputs
  PROVE  /\ linux_extra \in Nat /\ eol_extra \in Nat /\ initrd_extra \in Nat
         /\ BlsLine \in Nat /\ Prefix \in 0..15
         /\ linux_extra = 0 => loc.path > 194
<1>1. /\ kind \in AllKinds /\ loc \in Location /\ name \in Nat
  BY GrubAssumption DEF Inputs
<1>2. /\ loc.path \in Nat /\ loc.path > 0 /\ loc.num \in 1..10 /\ loc.offset \in 1..20
      /\ loc.size \in 1..20
  BY <1>1 DEF Location
<1>3. Partuuid \in {11, 36}
  BY DEF Partuuid
<1>4. KindArgs \in 0..129
  BY <1>1, <1>3 DEF KindArgs, AllKinds
<1>5. /\ linux_extra \in Nat
      /\ linux_extra = 0 => loc.path > 194
  <2>1. AfterGuid \in Nat /\ AfterGuid <= 186
    BY <1>3, <1>4 DEF AfterGuid
  <2>2. AfterNum \in Nat /\ AfterNum <= 216
    BY <1>2, <2>1 DEF AfterNum
  <2>3. AfterOffset \in Nat /\ AfterOffset <= 258
    BY <1>2, <2>2 DEF AfterOffset
  <2>4. AfterPath \in Nat /\ AfterPath <= 278 + loc.path
    BY <1>2, <2>3 DEF AfterPath
  <2>5. ~ParamsFit => loc.path > 194
    BY <1>2, <2>1, <2>2, <2>3, <2>4 DEF ParamsFit, Buffer
  <2> QED
    BY <1>2, <2>4, <2>5 DEF linux_extra
<1>6. eol_extra \in Nat
  BY <1>1, <1>2 DEF eol_extra, AllKinds
<1>7. initrd_extra \in Nat
  BY <1>1 DEF initrd_extra, NameLength
<1> QED
  BY <1>5, <1>6, <1>7 DEF BlsLine, Prefix

LEMMA CountBounds ==
  ASSUME Inputs, NEW key, NEW n \in Nat
  PROVE  /\ Count(key, n) \in Nat
         /\ n > 0 => Count(key, n) = Count(key, n - 1) + IF menu[n].key = key THEN 1 ELSE 0
         /\ \A m \in Nat : n <= m => Count(key, n) <= Count(key, m)
<1>1. ASSUME NEW m \in Nat PROVE IsFiniteSet(With(key, m))
  <2>1. IsFiniteSet(1..m)
    BY FS_Interval
  <2>2. With(key, m) \subseteq 1..m
    BY DEF With
  <2> QED
    BY <2>1, <2>2, FS_Subset
<1>2. Count(key, n) \in Nat
  BY <1>1, FS_CardinalityType DEF Count
<1>3. ASSUME n > 0
      PROVE  Count(key, n) = Count(key, n - 1) + IF menu[n].key = key THEN 1 ELSE 0
  <2>1. CASE menu[n].key = key
    <3>1. With(key, n) = With(key, n - 1) \cup {n} /\ n \notin With(key, n - 1)
      BY <1>3, <2>1 DEF With
    <3>2. IsFiniteSet(With(key, n - 1))
      BY <1>1, <1>3
    <3> QED
      BY <2>1, <3>1, <3>2, FS_AddElement DEF Count
  <2>2. CASE menu[n].key # key
    <3>1. With(key, n) = With(key, n - 1)
      BY <1>3, <2>2 DEF With
    <3>2. Count(key, n - 1) \in Nat
      BY <1>1, <1>3, FS_CardinalityType DEF Count
    <3> QED
      BY <2>2, <3>1, <3>2 DEF Count
  <2> QED
    BY <2>1, <2>2
<1>4. ASSUME NEW m \in Nat, n <= m PROVE Count(key, n) <= Count(key, m)
  <2>1. With(key, n) \subseteq With(key, m)
    BY <1>4 DEF With
  <2> QED
    BY <1>1, <2>1, FS_Subset DEF Count
<1> QED
  BY <1>2, <1>3, <1>4

LEMMA LinePlaces ==
  ASSUME Inputs, NEW n \in 1..Len(menu)
  PROVE  /\ menu[n] \in Line
         /\ EndOf(n) \in Nat /\ EndOf(n - 1) \in Nat
         /\ EndOf(n) = EndOf(n - 1) + LenOf(menu[n])
         /\ EndOf(n) <= Size(menu)
         /\ menu[n].drop \in Nat /\ LenOf(menu[n]) \in Nat
<1>1. /\ menu \in Seq(Line) /\ menu # <<>>
      /\ \A i \in 1..Len(menu) :
           /\ menu[i].start = IF i = 1 THEN 0 ELSE menu[i - 1].end
           /\ menu[i].start < menu[i].end
           /\ menu[i].end <= menu[Len(menu)].end
  BY GrubAssumption DEF Inputs
<1>2. \A i \in 1..Len(menu) : menu[i] \in Line
  BY <1>1
<1>3. \A i \in 1..Len(menu) : /\ menu[i].start \in Nat /\ menu[i].end \in Nat
                              /\ menu[i].drop \in Nat
  BY <1>2 DEF Line
<1>4. EndOf(n - 1) = menu[n].start
  BY <1>1 DEF EndOf
<1> QED
  BY <1>1, <1>2, <1>3, <1>4 DEF EndOf, LenOf, Size

\* Line n needs its own length and what its keyword has injected.
LEMMA NeedStep ==
  ASSUME Inputs, NEW n \in 1..Len(menu)
  PROVE  /\ Need(n - 1) \in Nat /\ Need(n) \in Nat
         /\ Need(n - 1) + LenOf(menu[n]) <= Need(n)
         /\ menu[n].key = "linux" =>
              Need(n) = Need(n - 1) + LenOf(menu[n]) + linux_extra + eol_extra
         /\ menu[n].key = "initrd" => Need(n) = Need(n - 1) + LenOf(menu[n]) + initrd_extra
         /\ menu[n].key = "blscfg" => Need(n) = Need(n - 1) + LenOf(menu[n]) + BlsLine
         /\ menu[n].key = "options" => Need(n) = Need(n - 1) + LenOf(menu[n]) + linux_extra
<1> DEFINE
  L == linux_extra + eol_extra
  I == initrd_extra
  B == BlsLine
  O == linux_extra
  l == Count("linux", n - 1)
  i == Count("initrd", n - 1)
  b == Count("blscfg", n - 1)
  o == Count("options", n - 1)
  One(key) == IF menu[n].key = key THEN 1 ELSE 0
<1>1. L \in Nat /\ I \in Nat /\ B \in Nat /\ O \in Nat /\ Prefix \in Nat
  <2>1. linux_extra \in Nat /\ eol_extra \in Nat /\ Prefix \in 0..15
    BY Lengths
  <2>2. initrd_extra \in Nat /\ BlsLine \in Nat
    BY Lengths
  <2> QED
    BY <2>1, <2>2
<1>2. l \in Nat /\ i \in Nat /\ b \in Nat /\ o \in Nat
  BY CountBounds
<1>3. /\ Count("linux", n) = l + One("linux")
      /\ Count("initrd", n) = i + One("initrd")
      /\ Count("blscfg", n) = b + One("blscfg")
      /\ Count("options", n) = o + One("options")
  BY CountBounds
<1>4. /\ (l + One("linux")) * L = l * L + IF menu[n].key = "linux" THEN L ELSE 0
      /\ (i + One("initrd")) * I = i * I + IF menu[n].key = "initrd" THEN I ELSE 0
      /\ (b + One("blscfg")) * B = b * B + IF menu[n].key = "blscfg" THEN B ELSE 0
      /\ (o + One("options")) * O = o * O + IF menu[n].key = "options" THEN O ELSE 0
  <2> HIDE DEF L, I, B, O, l, i, b, o
  <2> QED
    BY <1>1, <1>2, Product
<1>5. l * L \in Nat /\ i * I \in Nat /\ b * B \in Nat /\ o * O \in Nat
  <2> HIDE DEF L, I, B, O, l, i, b, o
  <2> QED
    BY <1>1, <1>2, Product
<1>6. Extra(n - 1) = l * L + i * I + b * B + o * O
  BY DEF Extra
<1>7. Extra(n) = (l + One("linux")) * L + (i + One("initrd")) * I
                   + (b + One("blscfg")) * B + (o + One("options")) * O
  BY <1>3 DEF Extra
<1> DEFINE aL == IF menu[n].key = "linux" THEN L ELSE 0
           aI == IF menu[n].key = "initrd" THEN I ELSE 0
           aB == IF menu[n].key = "blscfg" THEN B ELSE 0
           aO == IF menu[n].key = "options" THEN O ELSE 0
<1>8. /\ aL \in Nat /\ aI \in Nat /\ aB \in Nat /\ aO \in Nat
      /\ Extra(n) = Extra(n - 1) + (aL + aI + aB + aO)
  <2> DEFINE lL == l * L
             iI == i * I
             bB == b * B
             oO == o * O
  <2>1. lL \in Nat /\ iI \in Nat /\ bB \in Nat /\ oO \in Nat
    BY <1>5
  <2>2. Extra(n - 1) = lL + iI + bB + oO
    BY <1>6
  <2>3. Extra(n) = lL + aL + (iI + aI) + (bB + aB) + (oO + aO)
    BY <1>7, <1>4
  <2>4. aL \in Nat /\ aI \in Nat /\ aB \in Nat /\ aO \in Nat
    <3> HIDE DEF L, I, B, O
    <3> QED
      BY <1>1
  <2> HIDE DEF lL, iI, bB, oO, aL, aI, aB, aO
  <2> QED
    BY <2>1, <2>2, <2>3, <2>4
<1>9. Extra(n - 1) \in Nat
  BY <1>5, <1>6
<1>10. /\ LenOf(menu[n]) \in Nat /\ EndOf(n - 1) \in Nat
       /\ EndOf(n) = EndOf(n - 1) + LenOf(menu[n])
  BY LinePlaces
<1>11. linux_extra \in Nat /\ eol_extra \in Nat
  BY Lengths
<1> HIDE DEF l, i, b, o
<1> DEFINE d == Extra(n) - Extra(n - 1)
<1>12. /\ d \in Nat
       /\ menu[n].key = "linux" => d = linux_extra + eol_extra
       /\ menu[n].key = "initrd" => d = initrd_extra
       /\ menu[n].key = "blscfg" => d = BlsLine
       /\ menu[n].key = "options" => d = linux_extra
  <2>1. d = aL + aI + aB + aO /\ d \in Nat
    <3> HIDE DEF aL, aI, aB, aO
    <3> QED
      BY <1>8, <1>9
  <2> HIDE DEF d
  <2>2. CASE menu[n].key = "linux"
    <3>1. aL = L /\ aI = 0 /\ aB = 0 /\ aO = 0
      BY <2>2
    <3> HIDE DEF aL, aI, aB, aO
    <3> QED
      BY <2>1, <2>2, <3>1, <1>1
  <2>3. CASE menu[n].key = "initrd"
    <3>1. aL = 0 /\ aI = I /\ aB = 0 /\ aO = 0
      BY <2>3
    <3> HIDE DEF aL, aI, aB, aO
    <3> QED
      BY <2>1, <2>3, <3>1, <1>1
  <2>4. CASE menu[n].key = "blscfg"
    <3>1. aL = 0 /\ aI = 0 /\ aB = B /\ aO = 0
      BY <2>4
    <3> HIDE DEF aL, aI, aB, aO
    <3> QED
      BY <2>1, <2>4, <3>1, <1>1
  <2>5. CASE menu[n].key = "options"
    <3>1. aL = 0 /\ aI = 0 /\ aB = 0 /\ aO = O
      BY <2>5
    <3> HIDE DEF aL, aI, aB, aO
    <3> QED
      BY <2>1, <2>5, <3>1, <1>1
  <2> QED
    BY <2>1, <2>2, <2>3, <2>4, <2>5
<1> HIDE DEF aL, aI, aB, aO
<1>13. /\ Need(n - 1) \in Nat /\ Extra(n) = Extra(n - 1) + d
       /\ Extra(n) \in Nat
  <2>1. Extra(n) \in Nat
    BY <1>8, <1>9
  <2>2. Prefix \in Nat
    BY <1>1
  <2>3. Need(n - 1) \in Nat
    BY <2>2, <1>9, <1>10 DEF Need
  <2> QED
    BY <2>1, <2>3, <1>9
<1> HIDE DEF d, L, I, B, O
<1>14. Need(n) = Need(n - 1) + LenOf(menu[n]) + d
  BY <1>1, <1>9, <1>10, <1>12, <1>13 DEF Need
<1>15. Need(n - 1) \in Nat /\ LenOf(menu[n]) \in Nat /\ d \in Nat
  BY <1>10, <1>12, <1>13
<1>16. Need(n) \in Nat /\ Need(n - 1) + LenOf(menu[n]) <= Need(n)
  BY <1>14, <1>15
<1>17. menu[n].key = "linux" =>
          Need(n) = Need(n - 1) + LenOf(menu[n]) + linux_extra + eol_extra
  BY <1>11, <1>12, <1>14, <1>15
<1>18. /\ menu[n].key = "initrd" => Need(n) = Need(n - 1) + LenOf(menu[n]) + initrd_extra
       /\ menu[n].key = "blscfg" => Need(n) = Need(n - 1) + LenOf(menu[n]) + BlsLine
       /\ menu[n].key = "options" => Need(n) = Need(n - 1) + LenOf(menu[n]) + linux_extra
  BY <1>12, <1>14
<1> QED
  BY <1>15, <1>16, <1>17, <1>18

\* No prefix of the menu needs more than the block has.
LEMMA NeedBound ==
  ASSUME Inputs, NEW n \in 0..Len(menu)
  PROVE  /\ Extra(Len(menu)) \in Nat /\ Size(menu) \in Nat
         /\ Need(n) \in Nat /\ Capacity \in Nat /\ Need(n) <= Capacity
         /\ n = 0 => Prefix <= Need(n)
<1> DEFINE N == Len(menu)
           L == linux_extra + eol_extra
<1>1. L \in Nat /\ initrd_extra \in Nat /\ BlsLine \in Nat /\ linux_extra \in Nat /\ Prefix \in 0..15
  <2>1. linux_extra \in Nat /\ eol_extra \in Nat
    BY Lengths
  <2> QED
    BY <2>1, Lengths
<1>2. n \in Nat /\ N \in Nat /\ n <= N
  BY GrubAssumption DEF Inputs
<1>3. \A key : /\ Count(key, n) \in Nat /\ Count(key, N) \in Nat
               /\ Count(key, n) <= Count(key, N)
  BY <1>2, CountBounds
<1>4. /\ Count("linux", n) * L \in Nat /\ Count("linux", N) * L \in Nat
      /\ Count("linux", n) * L <= Count("linux", N) * L
  BY <1>1, <1>3, Product
<1>5. /\ Count("initrd", n) * initrd_extra \in Nat /\ Count("initrd", N) * initrd_extra \in Nat
      /\ Count("initrd", n) * initrd_extra <= Count("initrd", N) * initrd_extra
  BY <1>1, <1>3, Product
<1>6. /\ Count("blscfg", n) * BlsLine \in Nat /\ Count("blscfg", N) * BlsLine \in Nat
      /\ Count("blscfg", n) * BlsLine <= Count("blscfg", N) * BlsLine
  BY <1>1, <1>3, Product
<1>7. /\ Count("options", n) * linux_extra \in Nat /\ Count("options", N) * linux_extra \in Nat
      /\ Count("options", n) * linux_extra <= Count("options", N) * linux_extra
  BY <1>1, <1>3, Product
<1>8. Extra(n) \in Nat /\ Extra(N) \in Nat /\ Extra(n) <= Extra(N)
  BY <1>4, <1>5, <1>6, <1>7 DEF Extra
<1>9. EndOf(n) \in Nat /\ Size(menu) \in Nat /\ EndOf(n) <= Size(menu)
  <2>1. CASE n > 0
    <3>1. n \in 1..N /\ N \in 1..N
      BY <1>2, <2>1
    <3>2. EndOf(n) \in Nat /\ EndOf(n) <= Size(menu) /\ EndOf(N) \in Nat
      BY <3>1, LinePlaces
    <3>3. Size(menu) = EndOf(N)
      BY <3>1 DEF Size, EndOf
    <3> QED
      BY <3>2, <3>3
  <2>2. CASE n = 0 /\ N > 0
    <3>1. N \in 1..N
      BY <1>2, <2>2
    <3>2. EndOf(N) \in Nat
      BY <3>1, LinePlaces
    <3>3. Size(menu) = EndOf(N)
      BY <3>1 DEF Size, EndOf
    <3> QED
      BY <2>2, <3>2, <3>3 DEF EndOf
  <2>3. CASE n = 0 /\ N = 0
    BY <2>3, GrubAssumption DEF EndOf, Size, Inputs
  <2> QED
    BY <1>2, <2>1, <2>2, <2>3
<1> QED
  <2>1. Need(n) \in Nat /\ Capacity \in Nat /\ Need(n) <= Capacity
    BY <1>1, <1>8, <1>9 DEF Need, Capacity
  <2>2. n = 0 => Prefix <= Need(n)
    BY <1>1, <1>8 DEF Need, EndOf
  <2> QED
    BY <1>8, <1>9, <2>1, <2>2

-----------------------------------------------------------------------------
(* The invariant. *)

LEMMA InitPatchInv == PatchInit => PatchInv
BY GrubAssumption DEF PatchInit, PatchInv, Inputs, Budget, Stages

\* What the menu needs does not change while it is rewritten.
LEMMA InputKept ==
  ASSUME Input
  PROVE  /\ menu' = menu /\ linux_extra' = linux_extra /\ eol_extra' = eol_extra
         /\ Prefix' = Prefix /\ Capacity' = Capacity
         /\ \A n : Need(n)' = Need(n) /\ Before(n)' = Before(n)
         /\ Inputs => Inputs'
<1> menu' = menu /\ kind' = kind /\ loc' = loc /\ name' = name
  BY DEF Input
<1>1. linux_extra' = linux_extra
  BY DEF linux_extra, ParamsFit, AfterGuid, AfterNum, AfterOffset, AfterPath, KindArgs, Partuuid,
         Buffer
<1>2. eol_extra' = eol_extra /\ initrd_extra' = initrd_extra /\ BlsLine' = BlsLine
  BY <1>1 DEF eol_extra, initrd_extra, NameLength, BlsLine
<1>3. \A key, n : With(key, n)' = With(key, n)
  BY DEF With
<1>4. Prefix' = Prefix
  <2>1. \A key : Has(key)' = Has(key)
    BY <1>3 DEF Has
  <2>2. Stub' = Stub
    BY <2>1 DEF Stub
  <2> QED
    BY <2>2 DEF Prefix
<1>5. \A n : Extra(n)' = Extra(n)
  BY <1>1, <1>2, <1>3 DEF Extra, Count
<1>6. \A n : EndOf(n)' = EndOf(n)
  BY DEF EndOf
<1>7. \A n : Need(n)' = Need(n)
  BY <1>4, <1>5, <1>6 DEF Need
<1>8. \A n : Before(n)' = Before(n)
  BY <1>7 DEF Before, LenOf
<1>9. Capacity' = Capacity
  BY <1>5 DEF Capacity, Size
<1> QED
  BY <1>1, <1>2, <1>4, <1>7, <1>8, <1>9 DEF Inputs

LEMMA StepPatchInv == PatchInv /\ [PatchNext]_patchVars => PatchInv'
<1> SUFFICES ASSUME PatchInv, [PatchNext]_patchVars PROVE PatchInv'
    OBVIOUS
<1> USE DEF PatchInv, Stages
<1>0. /\ Inputs /\ Len(menu) \in Nat
      /\ linux_extra \in Nat /\ eol_extra \in Nat /\ initrd_extra \in Nat /\ BlsLine \in Nat
      /\ Prefix \in 0..15
  <2>1. Inputs /\ Len(menu) \in Nat
    BY GrubAssumption DEF Inputs
  <2> QED
    BY <2>1, Lengths
\* The line being written, and the room there is for it.
<1>1. ASSUME stage \in {"line", "eol", "panic"}
      PROVE  /\ k \in 1..Len(menu) /\ cap = Capacity
             /\ menu[k].drop \in Nat
             /\ Before(k) \in Int /\ Need(k) \in Int /\ Need(k) <= cap /\ Before(k) <= Need(k)
             /\ menu[k].key = "linux" => Need(k) = Before(k) + linux_extra + eol_extra
             /\ menu[k].key = "initrd" => Need(k) = Before(k) + initrd_extra
             /\ menu[k].key = "blscfg" => Need(k) = Before(k) + BlsLine
             /\ menu[k].key = "options" => Need(k) = Before(k) + linux_extra
  <2>1. k \in 1..Len(menu) /\ k \in 0..Len(menu) /\ cap = Capacity
    BY <1>1, <1>0 DEF Budget
  <2>2. Need(k) <= Capacity
    BY <1>0, <2>1, NeedBound
  <2>3. menu[k].drop \in Nat /\ LenOf(menu[k]) \in Nat
    BY <1>0, <2>1, LinePlaces
  <2> QED
    BY <1>0, <2>1, <2>2, <2>3, NeedStep DEF Before
\* What the steps within a line share: they stay with it and within its need.
<1>2. ASSUME stage \in {"line", "eol"}, Input, k' = k, cap' = cap, stage' = "copy",
             dst' \in Int, dst' <= Need(k)
      PROVE  PatchInv'
  <2>1. k \in 1..Len(menu) /\ cap = Capacity
    BY <1>1, <1>2
  <2>2. /\ menu' = menu /\ Inputs' /\ Capacity' = Capacity
        /\ \A n : Need(n)' = Need(n)
    BY <1>0, <1>2, InputKept
  <2> QED
    BY <1>2, <2>1, <2>2 DEF Budget
<1>3. CASE SkipMenu
  BY <1>3, InputKept DEF SkipMenu, Budget
<1>4. CASE Allocate
  <2>1. Capacity \in Nat /\ Len(menu) \in 0..Len(menu)
    BY <1>0, NeedBound
  <2> QED
    BY <1>4, <2>1, InputKept DEF Allocate, Budget, Capacity
<1>5. CASE AllocateFails
  BY <1>5, InputKept DEF AllocateFails, Budget
<1>6. CASE SetPrefix
  <2>1. /\ Input /\ stage = "prefix" /\ stage' = "copy" /\ k = 0 /\ k' = 0 /\ cap' = cap
        /\ cap = Capacity /\ dst' \in Int /\ dst' <= Prefix
    BY <1>6, <1>0 DEF SetPrefix, Budget
  <2>2. 0 \in 0..Len(menu) /\ Prefix <= Need(0) /\ Need(0) \in Nat
    BY <1>0, NeedBound
  <2>3. /\ menu' = menu /\ Inputs' /\ Capacity' = Capacity
        /\ \A n : Need(n)' = Need(n)
    BY <1>0, <2>1, InputKept
  <2>4. cap \in Nat
    BY DEF Budget
  <2> QED
    BY <2>1, <2>2, <2>3, <2>4, <1>0 DEF Budget
<1>7. CASE CopyLine
  <2>1. /\ Input /\ stage = "copy" /\ k' = k + 1 /\ cap' = cap
        /\ k \in 0..Len(menu) /\ k + 1 \in 1..Len(menu)
        /\ dst' = dst + LenOf(menu[k + 1]) /\ dst <= Need(k) /\ dst \in Int
        /\ cap = Capacity
        /\ stage' = IF dst' <= cap THEN "line" ELSE "overrun"
    BY <1>7, <1>0 DEF CopyLine, WriteTo, Budget
  <2>2. (k + 1) - 1 = k /\ k + 1 \in 0..Len(menu)
    BY <2>1, <1>0
  <2>3. LenOf(menu[k + 1]) \in Nat
    BY <1>0, <2>1, LinePlaces
  <2>4. Need(k) \in Nat /\ Before(k + 1) <= Need(k + 1) /\ Before(k + 1) = Need(k) + LenOf(menu[k + 1])
    BY <1>0, <2>1, <2>2, NeedStep DEF Before
  <2>5. Need(k + 1) <= cap /\ Need(k + 1) \in Nat /\ cap \in Nat
    BY <1>0, <2>1, <2>2, NeedBound
  <2>6. stage' = "line" /\ dst' \in Int /\ dst' <= Before(k + 1)
    BY <2>1, <2>3, <2>4, <2>5
  <2>7. /\ menu' = menu /\ Inputs' /\ Capacity' = Capacity
        /\ \A n : Before(n)' = Before(n)
    BY <1>0, <2>1, InputKept
  <2> QED
    BY <2>1, <2>2, <2>5, <2>6, <2>7 DEF Budget
<1>8. CASE WindowOfZero
  <2>1. /\ Input /\ stage = "line" /\ stage' = "panic" /\ k' = k /\ cap' = cap /\ dst' = dst
        /\ linux_extra = 0
    BY <1>8 DEF WindowOfZero, AtLine
  <2>2. /\ menu' = menu /\ Inputs' /\ Capacity' = Capacity /\ linux_extra' = linux_extra
        /\ \A n : Before(n)' = Before(n)
    BY <1>0, <2>1, InputKept
  <2> QED
    BY <2>1, <2>2 DEF Budget
<1>9. CASE PatchLinux
  <2>1. /\ Input /\ stage = "line" /\ k' = k /\ cap' = cap /\ menu[k].key = "linux"
        /\ dst' = dst - Dropped + linux_extra
        /\ stage' = IF dst' <= cap THEN IF eol_extra > 0 THEN "eol" ELSE "copy" ELSE "overrun"
    BY <1>9 DEF PatchLinux, AtLine, WriteTo
  <2>2. dst \in Int /\ dst <= Before(k) /\ k \in 0..Len(menu) /\ cap \in Nat
    BY <2>1, <1>1 DEF Budget
  <2>3. Dropped \in Nat
    BY <2>1, <1>1 DEF Dropped
  <2>4. dst' \in Int /\ dst' <= Before(k) + linux_extra /\ dst' <= Need(k) /\ dst' <= cap
    BY <2>1, <2>2, <2>3, <1>0, <1>1
  <2>5. CASE eol_extra > 0
    <3>1. stage' = "eol"
      BY <2>1, <2>4, <2>5
    <3>2. /\ menu' = menu /\ Inputs' /\ Capacity' = Capacity
          /\ linux_extra' = linux_extra /\ eol_extra' = eol_extra
          /\ \A n : Before(n)' = Before(n)
      BY <1>0, <2>1, InputKept
    <3>3. k > 0 /\ cap = Capacity
      BY <2>1, <1>1
    <3> QED
      BY <2>1, <2>2, <2>4, <2>5, <3>1, <3>2, <3>3 DEF Budget
  <2>6. CASE ~(eol_extra > 0)
    BY <2>1, <2>4, <2>6, <1>2
  <2> QED
    BY <2>5, <2>6
<1>10. CASE InjectEol
  <2>1. /\ Input /\ stage = "eol" /\ k' = k /\ cap' = cap /\ dst' = dst + eol_extra
        /\ stage' = IF dst' <= cap THEN "copy" ELSE "overrun"
    BY <1>10 DEF InjectEol, WriteTo
  <2>2. /\ dst \in Int /\ dst <= Before(k) + linux_extra /\ menu[k].key = "linux"
        /\ cap \in Nat
    BY <2>1, <1>1 DEF Budget
  <2>3. dst' \in Int /\ dst' <= Need(k) /\ dst' <= cap
    BY <2>1, <2>2, <1>0, <1>1
  <2> QED
    BY <2>1, <2>3, <1>2
<1>11. CASE PatchBls
  <2>1. /\ Input /\ stage = "line" /\ k' = k /\ cap' = cap /\ dst' = dst + BlsLine
        /\ menu[k].key = "blscfg" /\ stage' = IF dst' <= cap THEN "copy" ELSE "overrun"
    BY <1>11 DEF PatchBls, AtLine, WriteTo
  <2>2. dst \in Int /\ dst <= Before(k) /\ cap \in Nat
    BY <2>1, <1>1 DEF Budget
  <2>3. dst' \in Int /\ dst' <= Need(k) /\ dst' <= cap
    BY <2>1, <2>2, <1>0, <1>1
  <2> QED
    BY <2>1, <2>3, <1>2
<1>12. CASE PatchOptions
  <2>1. PICK blank \in {0, 1} :
          /\ Input /\ stage = "line" /\ k' = k /\ cap' = cap
          /\ dst' = dst - menu[k].drop + (IF linux_extra > 0 THEN linux_extra - 1 + blank ELSE 0)
          /\ menu[k].key = "options" /\ stage' = IF dst' <= cap THEN "copy" ELSE "overrun"
    BY <1>12 DEF PatchOptions, AtLine, WriteTo
  <2>2. dst \in Int /\ dst <= Before(k) /\ cap \in Nat
    BY <2>1, <1>1 DEF Budget
  <2>3. dst' \in Int /\ dst' <= Need(k) /\ dst' <= cap
    <3>1. menu[k].drop \in Nat /\ Need(k) = Before(k) + linux_extra /\ Before(k) \in Int
          /\ Need(k) <= cap /\ linux_extra \in Nat
      BY <2>1, <1>0, <1>1
    <3>2. CASE linux_extra > 0
      <4>1. dst' = dst - menu[k].drop + (linux_extra - 1 + blank)
        BY <2>1, <3>2
      <4> QED
        BY <4>1, <2>2, <3>1
    <3>3. CASE ~(linux_extra > 0)
      <4>1. dst' = dst - menu[k].drop + 0
        BY <2>1, <3>3
      <4> QED
        BY <4>1, <2>2, <3>1
    <3> QED
      BY <3>2, <3>3
  <2> QED
    BY <2>1, <2>3, <1>2
<1>13. CASE PatchInitrd
  <2>1. /\ Input /\ stage = "line" /\ k' = k /\ cap' = cap /\ dst' = dst + initrd_extra
        /\ menu[k].key = "initrd" /\ stage' = IF dst' <= cap THEN "copy" ELSE "overrun"
    BY <1>13 DEF PatchInitrd, AtLine, WriteTo
  <2>2. dst \in Int /\ dst <= Before(k) /\ cap \in Nat
    BY <2>1, <1>1 DEF Budget
  <2>3. dst' \in Int /\ dst' <= Need(k) /\ dst' <= cap
    BY <2>1, <2>2, <1>0, <1>1
  <2> QED
    BY <2>1, <2>3, <1>2
<1>14. CASE LeaveLine
  <2>1. Input /\ stage = "line" /\ k' = k /\ cap' = cap /\ dst' = dst /\ stage' = "copy"
    BY <1>14 DEF LeaveLine, AtLine
  <2>2. dst' \in Int /\ dst' <= Need(k)
    BY <2>1, <1>1 DEF Budget
  <2> QED
    BY <2>1, <2>2, <1>2
<1>15. CASE Finish
  <2>1. /\ Input /\ stage = "copy" /\ stage' \in {"done", "unchanged"}
        /\ k' = k /\ dst' = dst /\ cap' = cap
    BY <1>15 DEF Finish
  <2>2. /\ menu' = menu /\ Inputs' /\ Capacity' = Capacity
        /\ \A n : Need(n)' = Need(n)
    BY <1>0, <2>1, InputKept
  <2> QED
    BY <2>1, <2>2 DEF Budget
<1>16. CASE UNCHANGED patchVars
  <2>1. Input /\ stage' = stage /\ k' = k /\ dst' = dst /\ cap' = cap
    BY <1>16 DEF patchVars, Input
  <2> QED
    BY <2>1, <1>0, InputKept DEF Budget
<1> QED
  BY <1>3, <1>4, <1>5, <1>6, <1>7, <1>8, <1>9, <1>10, <1>11, <1>12, <1>13, <1>14, <1>15, <1>16
     DEF PatchNext

LEMMA FitsInv == PatchInv => Fits
<1> SUFFICES ASSUME PatchInv PROVE Fits
    OBVIOUS
<1>1. Inputs /\ Len(menu) \in Nat
  BY GrubAssumption DEF PatchInv, Inputs
<1>2. stage # "overrun"
  BY DEF PatchInv, Budget, Stages
<1>3. ASSUME stage \notin {"read", "unchanged"} PROVE dst <= cap
  <2>1. /\ cap = Capacity /\ cap \in Nat /\ dst \in Int /\ k \in 0..Len(menu)
        /\ stage \in {"prefix", "copy", "line", "eol", "done", "panic"}
    BY <1>3 DEF PatchInv, Budget, Stages
  <2>2. Need(k) <= Capacity /\ Need(k) \in Nat
    BY <1>1, <2>1, NeedBound
  <2>3. CASE stage = "prefix"
    BY <2>1, <2>3 DEF PatchInv, Budget
  <2>4. CASE stage \in {"copy", "done"}
    BY <2>1, <2>2, <2>4 DEF PatchInv, Budget
  <2>5. CASE stage \in {"line", "eol", "panic"}
    <3>1. k \in 1..Len(menu)
      BY <1>1, <2>1, <2>5 DEF PatchInv, Budget
    <3>2. /\ dst <= Before(k) + linux_extra
          /\ stage # "eol" => dst <= Before(k)
          /\ stage = "eol" => menu[k].key = "linux"
      BY <2>1, <2>5, <3>1, <1>1, Lengths, NeedStep, LinePlaces DEF PatchInv, Budget, Before
    <3>3. /\ Before(k) <= Need(k) /\ Before(k) \in Int
          /\ menu[k].key = "linux" => Need(k) = Before(k) + linux_extra + eol_extra
      BY <1>1, <3>1, NeedStep, LinePlaces DEF Before
    <3>4. linux_extra \in Nat /\ eol_extra \in Nat
      BY <1>1, Lengths
    <3> QED
      BY <2>1, <2>2, <3>2, <3>3, <3>4
  <2> QED
    BY <2>1, <2>3, <2>4, <2>5
<1> QED
  BY <1>2, <1>3 DEF Fits

\* Whatever the menu, no write goes behind the block allocated for it.
THEOREM FitsCorrect == PatchSpec => []Fits
<1>1. PatchInit => PatchInv
  BY InitPatchInv
<1>2. PatchInv /\ [PatchNext]_patchVars => PatchInv'
  BY StepPatchInv
<1>3. PatchInv => Fits
  BY FitsInv
<1> QED
  BY <1>1, <1>2, <1>3, PTL DEF PatchSpec

\* With a path of up to 194 bytes the loader never panics over a menu.
THEOREM LongPathCorrect == PatchSpec => []LongPathOnly
<1>1. PatchInit => PatchInv
  BY InitPatchInv
<1>2. PatchInv /\ [PatchNext]_patchVars => PatchInv'
  BY StepPatchInv
<1>3. PatchInv => LongPathOnly
  BY Lengths DEF PatchInv, Budget, LongPathOnly
<1> QED
  BY <1>1, <1>2, <1>3, PTL DEF PatchSpec

-----------------------------------------------------------------------------
(* A sequence without some of its elements.                                *)

\* What Only keeps of one element.
Piece(x, S) == IF x \in S THEN <<x>> ELSE <<>>

LEMMA PieceTyped ==
  ASSUME NEW T, NEW S, NEW x \in T
  PROVE  Piece(x, S) \in Seq(T \cap S) /\ Piece(x, S) \in Seq(T)
<1>1. CASE x \in S
  <2>1. x \in T \cap S
    BY <1>1
  <2> QED
    BY <1>1, <2>1 DEF Piece
<1>2. CASE x \notin S
  BY <1>2 DEF Piece
<1> QED
  BY <1>1, <1>2

LEMMA OnlyAppend ==
  ASSUME NEW T, NEW S
  PROVE  /\ Only(<<>>, S) = <<>>
         /\ \A s \in Seq(T) : Only(s, S) \in Seq(T \cap S) /\ Only(s, S) \in Seq(T)
         /\ \A s \in Seq(T), x \in T : Only(Append(s, x), S) = Only(s, S) \o Piece(x, S)
<1> DEFINE Pieces(s) == [i \in DOMAIN s |-> Piece(s[i], S)]
<1>0. ASSUME NEW s PROVE Only(s, S) = FlattenSeq(Pieces(s))
  BY DEF Only, Piece
<1>1. ASSUME NEW s \in Seq(T)
      PROVE  /\ Pieces(s) \in Seq(Seq(T \cap S)) /\ Pieces(s) \in Seq(Seq(T))
             /\ Len(Pieces(s)) = Len(s)
  <2>1. \A x \in T : Piece(x, S) \in Seq(T \cap S) /\ Piece(x, S) \in Seq(T)
    BY PieceTyped
  <2>2. DOMAIN s = 1..Len(s) /\ Len(s) \in Nat /\ \A i \in 1..Len(s) : s[i] \in T
    OBVIOUS
  <2>3. \A i \in 1..Len(s) : Piece(s[i], S) \in Seq(T \cap S) /\ Piece(s[i], S) \in Seq(T)
    BY <2>1, <2>2
  <2> QED
    BY <2>2, <2>3
<1>2. Only(<<>>, S) = <<>>
  <2>1. Pieces(<<>>) = <<>>
    OBVIOUS
  <2>2. FlattenSeq(<<>>) = <<>>
    BY DEF FlattenSeq
  <2> QED
    BY <1>0, <2>1, <2>2
<1>3. ASSUME NEW s \in Seq(T) PROVE Only(s, S) \in Seq(T \cap S) /\ Only(s, S) \in Seq(T)
  <2>1. Pieces(s) \in Seq(Seq(T \cap S)) /\ Pieces(s) \in Seq(Seq(T))
    BY <1>1
  <2> HIDE DEF Pieces
  <2> QED
    BY <1>0, <2>1, Flattened
<1>4. ASSUME NEW s \in Seq(T), NEW x \in T PROVE Only(Append(s, x), S) = Only(s, S) \o Piece(x, S)
  <2>1. Pieces(Append(s, x)) = Append(Pieces(s), Piece(x, S))
    <3>1. /\ Append(s, x) \in Seq(T) /\ Len(Append(s, x)) = Len(s) + 1
          /\ DOMAIN Append(s, x) = 1..Len(s) + 1 /\ DOMAIN s = 1..Len(s)
          /\ \A i \in 1..Len(s) : Append(s, x)[i] = s[i]
          /\ Append(s, x)[Len(s) + 1] = x /\ Len(s) \in Nat
      OBVIOUS
    <3>2. Pieces(s) \in Seq(Seq(T \cap S)) /\ Len(Pieces(s)) = Len(s)
      BY <1>1
    <3> DEFINE p == Pieces(s)
               q == Pieces(Append(s, x))
    <3>3. q = [i \in 1..Len(s) + 1 |-> IF i = Len(s) + 1 THEN Piece(x, S) ELSE p[i]]
      BY <3>1
    <3>4. Append(p, Piece(x, S)) = [i \in 1..Len(s) + 1 |-> IF i = Len(s) + 1 THEN Piece(x, S) ELSE p[i]]
      <4> HIDE DEF p
      <4> QED
        BY <3>1, <3>2 DEF p
    <3> QED
      BY <3>3, <3>4
  <2>2. Piece(x, S) \in Seq(T \cap S)
    BY PieceTyped
  <2> HIDE DEF Pieces
  <2>3. FlattenSeq(Append(Pieces(s), Piece(x, S))) = FlattenSeq(Pieces(s)) \o Piece(x, S)
    BY <1>1, <2>2, FlattenAppend
  <2> QED
    BY <1>0, <2>1, <2>3
<1> QED
  BY <1>2, <1>3, <1>4

LEMMA OnlyConcat ==
  ASSUME NEW T, NEW S, NEW s \in Seq(T)
  PROVE  \A t \in Seq(T) : Only(s \o t, S) = Only(s, S) \o Only(t, S)
<1> DEFINE P == {t \in Seq(T) : Only(s \o t, S) = Only(s, S) \o Only(t, S)}
<1>1. <<>> \in P
  <2>1. s \o <<>> = s /\ Only(s, S) \in Seq(T \cap S) /\ Only(<<>>, S) = <<>>
    BY OnlyAppend
  <2>2. Only(s, S) \o <<>> = Only(s, S)
    BY <2>1
  <2> QED
    BY <2>1, <2>2
<1>2. ASSUME NEW t \in Seq(T), NEW x \in T, t \in P PROVE Append(t, x) \in P
  <2>1. s \o Append(t, x) = Append(s \o t, x) /\ s \o t \in Seq(T)
    OBVIOUS
  <2>2. Only(Append(s \o t, x), S) = Only(s \o t, S) \o Piece(x, S)
    BY <2>1, OnlyAppend
  <2>3. Only(Append(t, x), S) = Only(t, S) \o Piece(x, S)
    BY OnlyAppend
  <2> DEFINE a == Only(s, S)
             b == Only(t, S)
             c == Piece(x, S)
  <2>4. a \in Seq(T \cap S) /\ b \in Seq(T \cap S) /\ c \in Seq(T \cap S)
    BY OnlyAppend, PieceTyped
  <2>5. Only(s \o t, S) = a \o b
    BY <1>2
  <2> HIDE DEF a, b, c
  <2>6. (a \o b) \o c = a \o (b \o c)
    BY <2>4
  <2>7. Append(t, x) \in Seq(T)
    OBVIOUS
  <2> QED
    BY <2>1, <2>2, <2>3, <2>5, <2>6, <2>7 DEF a, b, c
<1> HIDE DEF P
<1>3. Seq(T) \subseteq P
  BY <1>1, <1>2, AllSequences
<1> QED
  BY <1>3 DEF P

LEMMA OnlyOne ==
  ASSUME NEW T, NEW S, NEW x \in T
  PROVE  Only(<<x>>, S) = Piece(x, S)
<1>1. <<x>> = Append(<<>>, x) /\ <<>> \in Seq(T)
  OBVIOUS
<1>2. Only(<<x>>, S) = <<>> \o Piece(x, S)
  BY <1>1, OnlyAppend
<1> QED
  BY <1>2 DEF Piece

\* What is left out the first time would be left out the second time.
LEMMA OnlyTwice ==
  ASSUME NEW T, NEW U, NEW S, S \subseteq U
  PROVE  \A s \in Seq(T) : Only(Only(s, U), S) = Only(s, S)
<1> DEFINE P == {s \in Seq(T) : Only(Only(s, U), S) = Only(s, S)}
<1>1. <<>> \in P
  <2>1. Only(<<>>, U) = <<>> /\ Only(<<>>, S) = <<>>
    BY OnlyAppend
  <2> QED
    BY <2>1
<1>2. ASSUME NEW s \in Seq(T), NEW x \in T, s \in P PROVE Append(s, x) \in P
  <2>1. /\ Only(Append(s, x), U) = Only(s, U) \o Piece(x, U)
        /\ Only(Append(s, x), S) = Only(s, S) \o Piece(x, S)
        /\ Only(s, U) \in Seq(T \cap U)
    BY OnlyAppend
  <2>2. Only(s, U) \in Seq(T) /\ Piece(x, U) \in Seq(T)
    BY OnlyAppend, PieceTyped
  <2>3. Only(Only(s, U) \o Piece(x, U), S) = Only(Only(s, U), S) \o Only(Piece(x, U), S)
    BY <2>2, OnlyConcat
  <2>4. Only(Piece(x, U), S) = Piece(x, S)
    BY OnlyOne, OnlyAppend DEF Piece
  <2>5. Append(s, x) \in Seq(T)
    OBVIOUS
  <2> QED
    BY <1>2, <2>1, <2>3, <2>4, <2>5
<1> HIDE DEF P
<1>3. Seq(T) \subseteq P
  BY <1>1, <1>2, AllSequences
<1> QED
  BY <1>3 DEF P

LEMMA OnlyFirst ==
  ASSUME NEW T, NEW S, NEW s \in Seq(T), s # <<>>, s[1] \in S
  PROVE  Only(s, S) # <<>> /\ Only(s, S)[1] = s[1]
<1>1. s = <<s[1]>> \o Tail(s) /\ Tail(s) \in Seq(T) /\ <<s[1]>> \in Seq(T) /\ s[1] \in T
  OBVIOUS
<1>2. Only(s, S) = Only(<<s[1]>>, S) \o Only(Tail(s), S)
  BY <1>1, OnlyConcat
<1>3. Only(<<s[1]>>, S) = <<s[1]>>
  BY <1>1, OnlyOne DEF Piece
<1>4. Only(Tail(s), S) \in Seq(T \cap S)
  BY <1>1, OnlyAppend
<1> DEFINE t == Only(Tail(s), S)
<1>5. t \in Seq(T \cap S) /\ Only(s, S) = <<s[1]>> \o t
  BY <1>2, <1>3, <1>4
<1> HIDE DEF t
<1> QED
  BY <1>5

LEMMA Inserted ==
  ASSUME NEW T, NEW s \in Seq(T), NEW n \in 1..Len(s) + 1, NEW x \in T
  PROVE  /\ InsertAt(s, n, x) \in Seq(T) /\ Len(InsertAt(s, n, x)) = Len(s) + 1
         /\ InsertAt(s, n, x)[n] = x
         /\ \A i \in 1..n - 1 : InsertAt(s, n, x)[i] = s[i]
         /\ \A i \in n + 1..Len(s) + 1 : InsertAt(s, n, x)[i] = s[i - 1]
         /\ \A S : x \notin S => Only(InsertAt(s, n, x), S) = Only(s, S)
<1> DEFINE a == SubSeq(s, 1, n - 1)
           b == SubSeq(s, n, Len(s))
<1>1. /\ a \in Seq(T) /\ b \in Seq(T) /\ Len(a) = n - 1 /\ Len(b) = (Len(s) - n) + 1
      /\ \A i \in 1..n - 1 : a[i] = s[i]
      /\ \A i \in 1..Len(b) : b[i] = s[(n + i) - 1]
  OBVIOUS
<1>2. s = a \o b
  <2> DEFINE ab == a \o b
  <2>1. Len(ab) = Len(s) /\ ab \in Seq(T)
    <3> HIDE DEF a, b
    <3> QED
      BY <1>1
  <2>2. ASSUME NEW i \in 1..Len(s) PROVE ab[i] = s[i]
    <3>1. CASE i <= n - 1
      <4>1. i \in 1..Len(a) /\ a[i] = s[i]
        BY <1>1, <3>1
      <4> HIDE DEF a, b
      <4>2. ab[i] = a[i]
        BY <1>1, <4>1, Concatenated
      <4> QED
        BY <4>1, <4>2
    <3>2. CASE i > n - 1
      <4>1. (i - n) + 1 \in 1..Len(b) /\ (n + ((i - n) + 1)) - 1 = i
        BY <1>1, <3>2
      <4>2. b[(i - n) + 1] = s[i]
        BY <1>1, <4>1
      <4>3. ab[i] = b[(i - n) + 1]
        <5>1. Len(a) + ((i - n) + 1) = i
          BY <1>1
        <5> HIDE DEF a, b
        <5> QED
          BY <1>1, <4>1, <5>1, Concatenated
      <4> QED
        BY <4>2, <4>3
    <3>3. i \in Int /\ n \in Int
      OBVIOUS
    <3> HIDE DEF ab
    <3> QED
      BY <3>1, <3>2, <3>3
  <2> HIDE DEF ab
  <2>3. ab = s
    BY <2>1, <2>2
  <2> QED
    BY <2>3 DEF ab
<1>3. InsertAt(s, n, x) = (a \o <<x>>) \o b
  BY DEF InsertAt
<1> HIDE DEF a, b
<1> DEFINE c == a \o <<x>>
<1>4. c \in Seq(T) /\ Len(c) = n /\ c[n] = x /\ \A i \in 1..n - 1 : c[i] = s[i]
  BY <1>1
<1>5. ASSUME NEW S, x \notin S PROVE Only(c, S) = Only(a, S)
  <2>1. c = Append(a, x)
    BY <1>1
  <2>2. Only(c, S) = Only(a, S) \o Piece(x, S)
    BY <1>1, <2>1, OnlyAppend
  <2>3. Only(a, S) \in Seq(T \cap S)
    BY <1>1, OnlyAppend
  <2> QED
    BY <1>5, <2>2, <2>3 DEF Piece
<1> HIDE DEF c
<1>6. /\ c \o b \in Seq(T) /\ Len(c \o b) = Len(s) + 1
      /\ \A i \in 1..n : (c \o b)[i] = c[i]
      /\ \A i \in n + 1..Len(s) + 1 : (c \o b)[i] = b[i - n]
  <2>1. /\ c \o b \in Seq(T) /\ Len(c \o b) = Len(c) + Len(b)
        /\ \A i \in 1..Len(c) : (c \o b)[i] = c[i]
        /\ \A j \in 1..Len(b) : (c \o b)[Len(c) + j] = b[j]
    BY <1>1, <1>4, Concatenated
  <2>2. ASSUME NEW i \in n + 1..Len(s) + 1 PROVE (c \o b)[i] = b[i - n]
    <3>1. i - n \in 1..Len(b) /\ Len(c) + (i - n) = i
      BY <1>1, <1>4
    <3> QED
      BY <2>1, <3>1
  <2> QED
    BY <1>1, <1>4, <2>1, <2>2
<1>7. ASSUME NEW i \in n + 1..Len(s) + 1 PROVE b[i - n] = s[i - 1]
  <2>1. i - n \in 1..Len(b) /\ (n + (i - n)) - 1 = i - 1
    BY <1>1
  <2> QED
    BY <1>1, <2>1
<1>8. ASSUME NEW S, x \notin S PROVE Only(c \o b, S) = Only(s, S)
  <2>1. Only(c \o b, S) = Only(c, S) \o Only(b, S) /\ Only(a \o b, S) = Only(a, S) \o Only(b, S)
    BY <1>1, <1>4, OnlyConcat
  <2> QED
    BY <1>2, <1>5, <1>8, <2>1
<1>9. InsertAt(s, n, x) = c \o b
  BY <1>3 DEF c
<1> QED
  BY <1>4, <1>6, <1>7, <1>8, <1>9
-----------------------------------------------------------------------------
(* What becomes of the words of a line. *)

OutLines == [key : Keywords, words : Seq(Words), of : Nat]

\* The words in Original(ws).
Theirs == Words \ (Injected \cup {"locator"})

LEMMA WithoutFacts ==
  ASSUME NEW ws \in Seq(Words)
  PROVE  /\ WithoutLocators(ws) \in Seq(Words)
         /\ ~Contains(WithoutLocators(ws), "locator")
         /\ ~Contains(ws, "ours") => ~Contains(WithoutLocators(ws), "ours")
         /\ Original(WithoutLocators(ws)) = Original(ws)
         /\ ws # <<>> /\ ws[1] = "word" =>
              WithoutLocators(ws) # <<>> /\ WithoutLocators(ws)[1] = "word"
<1> DEFINE U == Words \ {"locator"}
           v == WithoutLocators(ws)
<1>1. v = Only(ws, U)
  BY DEF WithoutLocators
<1>2. v \in Seq(Words) /\ v \in Seq(Words \cap U)
  <2>1. Only(ws, U) \in Seq(Words) /\ Only(ws, U) \in Seq(Words \cap U)
    BY OnlyAppend
  <2> QED
    BY <1>1, <2>1
<1>3. ~Contains(v, "locator")
  <2> HIDE DEF v
  <2>1. \A i \in 1..Len(v) : v[i] \in U
    BY <1>2
  <2> QED
    BY <2>1 DEF Contains
<1>4. ASSUME ~Contains(ws, "ours") PROVE ~Contains(v, "ours")
  <2>1. ws \in Seq(Words \ {"ours"})
    <3>1. \A i \in 1..Len(ws) : ws[i] \in Words \ {"ours"}
      BY <1>4 DEF Contains
    <3> QED
      BY <3>1
  <2>2. v \in Seq(Words \ {"ours"})
    BY <1>1, <2>1, OnlyAppend
  <2> HIDE DEF v
  <2>3. \A i \in 1..Len(v) : v[i] # "ours"
    BY <2>2
  <2> QED
    BY <2>3 DEF Contains
<1>5. Original(v) = Original(ws)
  <2>1. Theirs \subseteq U
    BY DEF Theirs
  <2>2. Only(Only(ws, U), Theirs) = Only(ws, Theirs)
    BY <2>1, OnlyTwice
  <2> QED
    BY <1>1, <2>2 DEF Original, Theirs
<1>6. ASSUME ws # <<>>, ws[1] = "word" PROVE v # <<>> /\ v[1] = "word"
  <2>1. ws[1] \in U
    BY <1>6 DEF Words
  <2> QED
    BY <1>1, <1>6, <2>1, OnlyFirst
<1> QED
  BY <1>2, <1>3, <1>4, <1>5, <1>6

LEMMA InsertedFacts ==
  ASSUME NEW ws \in Seq(Words), NEW n \in 1..Len(ws) + 1, NEW x \in Injected
  PROVE  /\ InsertAt(ws, n, x) \in Seq(Words)
         /\ Original(InsertAt(ws, n, x)) = Original(ws)
         /\ ~Contains(ws, "locator") => ~Contains(InsertAt(ws, n, x), "locator")
         /\ \A w \in Words \ {x} : \A i \in Places(InsertAt(ws, n, x), w) :
              \/ i \in Places(ws, w) /\ i < n
              \/ i - 1 \in Places(ws, w) /\ n < i
         /\ \A w \in Words \ {x} : \A i \in Places(ws, w) :
              i < n => i \in Places(InsertAt(ws, n, x), w)
         /\ ~Contains(ws, x) => Places(InsertAt(ws, n, x), x) = {n}
<1> DEFINE r == InsertAt(ws, n, x)
<1>1. x \in Words /\ x # "locator" /\ x \notin Theirs
  BY DEF Injected, Words, Theirs
<1>2. /\ r \in Seq(Words) /\ Len(r) = Len(ws) + 1 /\ r[n] = x
      /\ \A i \in 1..n - 1 : r[i] = ws[i]
      /\ \A i \in n + 1..Len(ws) + 1 : r[i] = ws[i - 1]
      /\ Only(r, Theirs) = Only(ws, Theirs)
  BY <1>1, Inserted
<1>3. /\ DOMAIN r = 1..Len(ws) + 1 /\ DOMAIN ws = 1..Len(ws) /\ Len(ws) \in Nat /\ n \in Nat
      /\ n \in 1..Len(ws) + 1
  <2> HIDE DEF r
  <2> QED
    BY <1>2
<1> HIDE DEF r
<1>4. ASSUME NEW i \in DOMAIN r
      PROVE  \/ i = n /\ r[i] = x
             \/ i < n /\ i \in DOMAIN ws /\ r[i] = ws[i]
             \/ n < i /\ i - 1 \in DOMAIN ws /\ r[i] = ws[i - 1]
  BY <1>2, <1>3
<1>5. ASSUME ~Contains(ws, "locator") PROVE ~Contains(r, "locator")
  <2>1. \A i \in DOMAIN ws : ws[i] # "locator"
    BY <1>3, <1>5 DEF Contains
  <2>2. \A i \in DOMAIN r : r[i] # "locator"
    BY <1>1, <1>4, <2>1
  <2> QED
    BY <1>2, <1>3, <2>2 DEF Contains
<1>6. ASSUME NEW w \in Words \ {x}, NEW i \in Places(r, w)
      PROVE  \/ i \in Places(ws, w) /\ i < n
             \/ i - 1 \in Places(ws, w) /\ n < i
  BY <1>4 DEF Places
<1>7. ASSUME NEW w \in Words \ {x}, NEW i \in Places(ws, w), i < n PROVE i \in Places(r, w)
  <2>1. i \in 1..Len(ws) /\ ws[i] = w /\ i \in 1..n - 1
    BY <1>3, <1>7 DEF Places
  <2> QED
    BY <1>2, <1>3, <2>1 DEF Places
<1>8. ASSUME ~Contains(ws, x) PROVE Places(r, x) = {n}
  <2>1. \A i \in DOMAIN ws : ws[i] # x
    BY <1>3, <1>8 DEF Contains
  <2> QED
    BY <1>2, <1>3, <1>4, <2>1 DEF Places
<1>9. Original(r) = Original(ws)
  BY <1>2 DEF Original, Theirs
<1> QED
  BY <1>2, <1>5, <1>6, <1>7, <1>8, <1>9 DEF r

\* A kernel's arguments.
LEMMA KernelInserted ==
  ASSUME NEW ws \in Seq(Words), ~Contains(ws, "ours"), ws = <<>> \/ Head(ws) = "word",
         NEW r, r = InsertAfterKernel(Kept(ws), "ours")
  PROVE  /\ r \in Seq(Words) /\ Original(r) = Original(ws)
         /\ Removes => ~Contains(r, "locator")
         /\ \E p \in 1..Len(r) : /\ Places(r, "ours") = {p}
                                 /\ \A j \in Places(r, "---") : p < j
<1> DEFINE v == Kept(ws)
<1>0. ws # <<>> => ws[1] = "word"
  OBVIOUS
<1>1. /\ v \in Seq(Words) /\ ~Contains(v, "ours") /\ Original(v) = Original(ws)
      /\ Removes => ~Contains(v, "locator")
  BY WithoutFacts DEF Kept
<1>2. v # <<>> => v[1] = "word"
  <2>1. CASE ws = <<>>
    <3>1. Only(<<>>, Words \ {"locator"}) = <<>>
      BY OnlyAppend
    <3>2. v = <<>>
      BY <2>1, <3>1 DEF Kept, WithoutLocators
    <3> QED
      BY <3>2
  <2>2. CASE ws # <<>>
    BY <1>0, <2>2, WithoutFacts DEF Kept
  <2> QED
    BY <2>1, <2>2
<1> HIDE DEF v
<1>3. CASE v = <<>>
  <2>1. r = <<"ours">>
    BY <1>3 DEF InsertAfterKernel, v
  <2>2. r = InsertAt(v, 1, "ours")
    BY <1>3, <2>1 DEF InsertAt
  <2>3. "ours" \in Injected /\ 1 \in 1..Len(v) + 1
    BY <1>3 DEF Injected
  <2>4. r \in Seq(Words) /\ Original(r) = Original(v)
    BY <1>1, <2>2, <2>3, InsertedFacts
  <2>5. Places(r, "ours") = {1} /\ Places(r, "---") = {} /\ ~Contains(r, "locator") /\ Len(r) = 1
    BY <2>1 DEF Places, Contains
  <2>6. 1 \in 1..Len(r)
    BY <2>1
  <2>7. \A j \in Places(r, "---") : 1 < j
    BY <2>5
  <2> QED
    BY <1>1, <2>4, <2>5, <2>6, <2>7 DEF v
<1>4. CASE v # <<>>
  <2>1. r = InsertAt(v, 2, "ours")
    BY <1>4 DEF InsertAfterKernel, v
  <2>2. "ours" \in Injected /\ 2 \in 1..Len(v) + 1 /\ "---" \in Words \ {"ours"}
    BY <1>1, <1>4 DEF Injected, Words
  <2>3. /\ r \in Seq(Words) /\ Original(r) = Original(v)
        /\ ~Contains(v, "locator") => ~Contains(r, "locator")
        /\ ~Contains(v, "ours") => Places(r, "ours") = {2}
        /\ \A j \in Places(r, "---") : \/ j \in Places(v, "---") /\ j < 2
                                       \/ j - 1 \in Places(v, "---") /\ 2 < j
    <3>1. v \in Seq(Words)
      BY <1>1
    <3> QED
      BY <2>1, <2>2, <3>1, InsertedFacts
  <2>4. \A j \in Places(v, "---") : j # 1 /\ j \in Nat /\ j >= 1
    BY <1>1, <1>2, <1>4 DEF Places
  <2>5. \A j \in Places(r, "---") : 2 < j
    BY <2>3, <2>4
  <2>6. 2 \in 1..Len(r)
    BY <1>1, <2>3 DEF Places
  <2> QED
    BY <1>1, <2>3, <2>5, <2>6
<1> QED
  BY <1>3, <1>4

\* The path of the image behind them.
LEMMA PathInserted ==
  ASSUME NEW r \in Seq(Words), NEW p \in 1..Len(r), Places(r, "ours") = {p},
         \A j \in Places(r, "---") : p < j
  PROVE  LET at == CHOOSE i \in DOMAIN r : r[i] = "ours"
             q  == InsertAt(r, at + 1, "eol")
         IN  /\ q \in Seq(Words) /\ Original(q) = Original(r)
             /\ ~Contains(r, "locator") => ~Contains(q, "locator")
             /\ Places(q, "ours") = {p} /\ p < Len(q) /\ q[p + 1] = "eol"
             /\ \A j \in Places(q, "---") : p < j
<1> DEFINE at == CHOOSE i \in DOMAIN r : r[i] = "ours"
           q  == InsertAt(r, at + 1, "eol")
<1>1. at = p
  <2>1. p \in DOMAIN r /\ r[p] = "ours" /\ \A i \in DOMAIN r : r[i] = "ours" => i = p
    BY DEF Places
  <2> QED
    BY <2>1
<1> HIDE DEF at
<1>2. /\ "eol" \in Injected /\ p + 1 \in 1..Len(r) + 1 /\ "eol" \in Words
      /\ "ours" \in Words \ {"eol"} /\ "---" \in Words \ {"eol"}
  BY DEF Injected, Words
<1>3. q = InsertAt(r, p + 1, "eol")
  BY <1>1
<1> HIDE DEF q
<1>4. /\ q \in Seq(Words) /\ Original(q) = Original(r)
      /\ ~Contains(r, "locator") => ~Contains(q, "locator")
      /\ \A i \in Places(q, "ours") : \/ i \in Places(r, "ours") /\ i < p + 1
                                      \/ i - 1 \in Places(r, "ours") /\ p + 1 < i
      /\ \A i \in Places(q, "---") : \/ i \in Places(r, "---") /\ i < p + 1
                                     \/ i - 1 \in Places(r, "---") /\ p + 1 < i
      /\ \A i \in Places(r, "ours") : i < p + 1 => i \in Places(q, "ours")
  BY <1>2, <1>3, InsertedFacts
<1>5. Len(q) = Len(r) + 1 /\ q[p + 1] = "eol"
  BY <1>2, <1>3, Inserted
<1>6. \A i \in Places(q, "ours") : i \in Int
  BY <1>4 DEF Places
<1>7. \A i \in Places(q, "---") : i \in Int
  BY <1>4 DEF Places
<1>8. Places(q, "ours") = {p}
  BY <1>4, <1>6
<1>9. \A j \in Places(q, "---") : p < j
  BY <1>4, <1>7
<1> QED
  BY <1>4, <1>5, <1>8, <1>9 DEF at, q
-----------------------------------------------------------------------------
(* The lines of the output. *)

\* What EntriesReady asks of a line for itself.
Ready(line) ==
  /\ line.of # 0 => Original(line.words) = Original(menu[line.of].words)
  /\ line.key = "linux" => KernelReady(line)
  /\ line.key = "initrd" => ArchiveReady(line)
  /\ line.key = "options" /\ linux_extra > 0 =>
       Last(line.words) = "ours" /\ ~Contains(line.words, "locator")

Sets(line) == line.words = <<"ours">>

\* o is the finished output of the first n lines.
Written(o, n) ==
  /\ o \in Seq(OutLines)
  /\ [i \in 1..n |-> i] = Only([i \in DOMAIN o |-> o[i].of], Nat \ {0})
  /\ \A i \in DOMAIN o : o[i].of = 0 => o[i].key = "other"
  /\ \A i \in DOMAIN o : Ready(o[i])
  /\ linux_extra > 0 => \A i \in DOMAIN o : o[i].key = "blscfg" => i > 1 /\ Sets(o[i - 1])

\* The output is finished between two lines, and but for its last line within one.
ReadyInv ==
  /\ stage \in {"copy", "done"} => \E o, n : out = o /\ k = n /\ Written(o, n)
  /\ stage = "line" =>
       \E o, n, ws : /\ k = n /\ Written(o, n - 1)
                     /\ ws = menu[n].words /\ out = Append(o, OutLine(menu[n].key, ws, n))
  /\ stage = "eol" =>
       \E o, n, ws, new :
          /\ k = n /\ Written(o, n - 1)
          /\ ws = menu[n].words /\ ~Contains(ws, "ours")
          /\ new = InsertAfterKernel(Kept(ws), "ours")
          /\ out = Append(o, OutLine(menu[n].key, new, n))
  /\ stage = "done" => k = Len(menu)

LEMMA AppendLine ==
  ASSUME NEW o \in Seq(OutLines), NEW line \in OutLines
  PROVE  /\ Append(o, line) \in Seq(OutLines) /\ Len(Append(o, line)) = Len(o) + 1
         /\ Append(o, line)[Len(o) + 1] = line
         /\ \A i \in DOMAIN o : i \in 1..Len(o) /\ Append(o, line)[i] = o[i]
         /\ \A i \in DOMAIN Append(o, line) : i = Len(o) + 1 \/ i \in DOMAIN o
         /\ Front(Append(o, line)) = o /\ Last(Append(o, line)) = line
         /\ Only([i \in DOMAIN Append(o, line) |-> Append(o, line)[i].of], Nat \ {0})
              = Only([i \in DOMAIN o |-> o[i].of], Nat \ {0})
                  \o (IF line.of = 0 THEN <<>> ELSE <<line.of>>)
<1> DEFINE p == Append(o, line)
           a == [i \in DOMAIN o |-> o[i].of]
           b == [i \in DOMAIN p |-> p[i].of]
<1>1. /\ p \in Seq(OutLines) /\ Len(p) = Len(o) + 1 /\ p[Len(o) + 1] = line
      /\ DOMAIN o = 1..Len(o) /\ DOMAIN p = 1..Len(o) + 1 /\ Len(o) \in Nat
      /\ \A i \in 1..Len(o) : p[i] = o[i]
  OBVIOUS
<1>2. Front(p) = o /\ Last(p) = line
  BY <1>1 DEF Front, Last
<1> HIDE DEF p
<1>3. \A x \in OutLines : x.of \in Nat
  BY DEF OutLines
<1>4. \A i \in 1..Len(o) : o[i].of \in Nat
  BY <1>3
<1>5. a \in Seq(Nat) /\ Len(a) = Len(o) /\ line.of \in Nat
  BY <1>1, <1>3, <1>4
<1>6. b = Append(a, line.of)
  <2>1. b = [i \in 1..Len(o) + 1 |-> IF i = Len(o) + 1 THEN line.of ELSE o[i].of]
    BY <1>1
  <2>2. Append(a, line.of) = [i \in 1..Len(o) + 1 |-> IF i = Len(o) + 1 THEN line.of ELSE o[i].of]
    <3>1. \A i \in 1..Len(o) : a[i] = o[i].of
      BY <1>1
    <3> HIDE DEF a
    <3> QED
      BY <1>1, <1>5, <3>1
  <2> QED
    BY <2>1, <2>2
<1> HIDE DEF a, b
<1>7. Only(b, Nat \ {0}) = Only(a, Nat \ {0}) \o Piece(line.of, Nat \ {0})
  <2>1. Only(Append(a, line.of), Nat \ {0}) = Only(a, Nat \ {0}) \o Piece(line.of, Nat \ {0})
    BY <1>5, OnlyAppend
  <2> QED
    BY <1>6, <2>1
<1>8. Piece(line.of, Nat \ {0}) = IF line.of = 0 THEN <<>> ELSE <<line.of>>
  BY <1>5 DEF Piece
<1>9. Only(b, Nat \ {0}) = Only(a, Nat \ {0}) \o (IF line.of = 0 THEN <<>> ELSE <<line.of>>)
  BY <1>7, <1>8
<1>10. /\ p \in Seq(OutLines) /\ Len(p) = Len(o) + 1 /\ p[Len(o) + 1] = line
       /\ \A i \in DOMAIN o : i \in 1..Len(o) /\ p[i] = o[i]
       /\ \A i \in DOMAIN p : i = Len(o) + 1 \/ i \in DOMAIN o
  BY <1>1
<1> QED
  BY <1>2, <1>9, <1>10 DEF p, a, b

\* A line of the menu is finished.
LEMMA WrittenLine ==
  ASSUME NEW n \in Nat \ {0}, NEW o, Written(o, n - 1),
         NEW line \in OutLines, line.of = n, Ready(line),
         line.key = "blscfg" /\ linux_extra > 0 => o # <<>> /\ Sets(Last(o))
  PROVE  Written(Append(o, line), n)
<1> DEFINE p == Append(o, line)
<1>0. o \in Seq(OutLines)
  BY DEF Written
<1>1. /\ p \in Seq(OutLines) /\ p[Len(o) + 1] = line
      /\ \A i \in DOMAIN o : i \in 1..Len(o) /\ p[i] = o[i]
      /\ \A i \in DOMAIN p : i = Len(o) + 1 \/ i \in DOMAIN o
      /\ Only([i \in DOMAIN p |-> p[i].of], Nat \ {0})
           = Only([i \in DOMAIN o |-> o[i].of], Nat \ {0}) \o <<n>>
  BY <1>0, AppendLine
<1> HIDE DEF p
<1>2. [i \in 1..n |-> i] = [i \in 1..n - 1 |-> i] \o <<n>>
  <2> DEFINE f == [i \in 1..n - 1 |-> i]
  <2>1. f \in Seq(Nat) /\ Len(f) = n - 1 /\ \A i \in 1..n - 1 : f[i] = i
    OBVIOUS
  <2> HIDE DEF f
  <2>2. f \o <<n>> = [i \in 1..n |-> i]
    BY <2>1
  <2> QED
    BY <2>2 DEF f
<1>3. Only([i \in DOMAIN p |-> p[i].of], Nat \ {0}) = [i \in 1..n |-> i]
  BY <1>1, <1>2 DEF Written
<1>4. ASSUME linux_extra > 0, NEW i \in DOMAIN p, p[i].key = "blscfg"
      PROVE  i > 1 /\ Sets(p[i - 1])
  <2>1. CASE i = Len(o) + 1
    <3>1. o # <<>> /\ Sets(o[Len(o)])
      BY <1>1, <1>4, <2>1 DEF Last
    <3>2. Len(o) \in DOMAIN o /\ i - 1 = Len(o) /\ i > 1
      BY <1>0, <2>1, <3>1
    <3> QED
      BY <1>1, <3>1, <3>2
  <2>2. CASE i \in DOMAIN o
    <3>1. i > 1 /\ Sets(o[i - 1])
      BY <1>1, <1>4, <2>2 DEF Written
    <3>2. i - 1 \in DOMAIN o
      BY <1>0, <2>2, <3>1
    <3> QED
      BY <1>1, <3>1, <3>2
  <2> QED
    BY <1>1, <2>1, <2>2
<1>5. \A i \in DOMAIN p : p[i].of = 0 => p[i].key = "other"
  BY <1>1 DEF Written
<1>6. \A i \in DOMAIN p : Ready(p[i])
  BY <1>1 DEF Written
<1>7. Written(p, n)
  BY <1>1, <1>3, <1>4, <1>5, <1>6 DEF Written
<1> QED
  BY <1>7 DEF p

\* A line is put between them.
LEMMA WrittenBetween ==
  ASSUME NEW n, NEW o, Written(o, n), NEW ws \in Seq(Words)
  PROVE  Written(Append(o, OutLine("other", ws, 0)), n)
<1> DEFINE line == OutLine("other", ws, 0)
           p == Append(o, line)
<1>0. o \in Seq(OutLines)
  BY DEF Written
<1>1. line \in OutLines /\ line.of = 0 /\ line.key = "other"
  BY DEF OutLine, OutLines, Keywords
<1>2. Ready(line)
  BY <1>1 DEF Ready
<1> HIDE DEF line
<1>3. /\ p \in Seq(OutLines) /\ p[Len(o) + 1] = line
      /\ \A i \in DOMAIN o : i \in 1..Len(o) /\ p[i] = o[i]
      /\ \A i \in DOMAIN p : i = Len(o) + 1 \/ i \in DOMAIN o
      /\ Only([i \in DOMAIN p |-> p[i].of], Nat \ {0})
           = Only([i \in DOMAIN o |-> o[i].of], Nat \ {0}) \o <<>>
  BY <1>0, <1>1, AppendLine
<1> HIDE DEF p
<1>4. Only([i \in DOMAIN p |-> p[i].of], Nat \ {0}) = [i \in 1..n |-> i]
  <2> DEFINE f == Only([i \in DOMAIN o |-> o[i].of], Nat \ {0})
  <2>1. f \in Seq(Nat)
    <3>1. [i \in DOMAIN o |-> o[i].of] \in Seq(Nat)
      <4>1. DOMAIN o = 1..Len(o) /\ Len(o) \in Nat /\ \A i \in 1..Len(o) : o[i] \in OutLines
        BY <1>0
      <4>2. \A i \in 1..Len(o) : o[i].of \in Nat
        BY <4>1 DEF OutLines
      <4> QED
        BY <4>1, <4>2
    <3> QED
      BY <3>1, OnlyAppend
  <2>2. f = [i \in 1..n |-> i]
    BY DEF Written
  <2> HIDE DEF f
  <2>3. f \o <<>> = f
    BY <2>1
  <2> QED
    BY <1>3, <2>2, <2>3 DEF f
<1>5. ASSUME linux_extra > 0, NEW i \in DOMAIN p, p[i].key = "blscfg"
      PROVE  i > 1 /\ Sets(p[i - 1])
  <2>1. i \in DOMAIN o
    BY <1>1, <1>3, <1>5
  <2>2. i > 1 /\ Sets(o[i - 1])
    BY <1>3, <1>5, <2>1 DEF Written
  <2>3. i - 1 \in DOMAIN o
    BY <1>0, <2>1, <2>2
  <2> QED
    BY <1>3, <2>2, <2>3
<1>6. \A i \in DOMAIN p : p[i].of = 0 => p[i].key = "other"
  BY <1>1, <1>3 DEF Written
<1>7. \A i \in DOMAIN p : Ready(p[i])
  BY <1>2, <1>3 DEF Written
<1>8. Written(p, n)
  BY <1>3, <1>4, <1>5, <1>6, <1>7 DEF Written
<1> QED
  BY <1>8 DEF p, line

LEMMA NothingWritten == Written(<<>>, 0)
<1>1. Only([i \in DOMAIN <<>> |-> <<>>[i].of], Nat \ {0}) = <<>>
  <2>1. [i \in DOMAIN <<>> |-> <<>>[i].of] = <<>>
    OBVIOUS
  <2>2. Only(<<>>, Nat \ {0}) = <<>>
    BY OnlyAppend
  <2> QED
    BY <2>1, <2>2
<1>2. [i \in 1..0 |-> i] = <<>>
  OBVIOUS
<1>3. <<>> \in Seq(OutLines) /\ \A i : i \notin DOMAIN <<>>
  OBVIOUS
<1> QED
  BY <1>1, <1>2, <1>3 DEF Written

\* What is asked of a line does not change while the menu is rewritten.
LEMMA WrittenKept ==
  ASSUME Input
  PROVE  /\ \A o, n : Written(o, n) => Written(o, n)'
         /\ \A ws : Kept(ws)' = Kept(ws)
<1> menu' = menu /\ kind' = kind /\ loc' = loc /\ name' = name
  BY DEF Input
<1>1. linux_extra' = linux_extra /\ eol_extra' = eol_extra
  BY InputKept
<1>2. dedup' = dedup
  BY DEF dedup, NameLength
<1>3. Removes' = Removes
  BY <1>1 DEF Removes
<1>4. \A line : KernelReady(line)' = KernelReady(line)
  BY <1>1, <1>3 DEF KernelReady
<1>5. \A line : ArchiveReady(line)' = ArchiveReady(line)
  BY <1>2 DEF ArchiveReady
<1>6. \A line : Ready(line)' = Ready(line)
  BY <1>1, <1>4, <1>5 DEF Ready
<1>7. \A o, n : Written(o, n)' = Written(o, n)
  BY <1>1, <1>6 DEF Written
<1> QED
  BY <1>3, <1>7 DEF Kept
LEMMA LineFacts ==
  ASSUME Inputs, NEW n \in 1..Len(menu)
  PROVE  /\ menu[n].words \in Seq(Words) /\ menu[n].key \in Keywords /\ n \in Nat \ {0}
         /\ menu[n].key = "linux" => menu[n].words = <<>> \/ Head(menu[n].words) = "word"
         /\ \A ws \in Seq(Words) : OutLine(menu[n].key, ws, n) \in OutLines
         /\ LenOf(menu[n]) \in Nat /\ dedup \in Nat
<1>1. menu[n] \in Line /\ LenOf(menu[n]) \in Nat
  BY LinePlaces
<1>2. n \in DOMAIN menu /\ menu \in Menus /\ n \in Nat \ {0}
  BY GrubAssumption DEF Inputs
<1>3. dedup \in Nat
  BY GrubAssumption DEF Inputs, dedup, NameLength
<1>4. menu[n].key = "linux" => menu[n].words = <<>> \/ Head(menu[n].words) = "word"
  BY <1>2, GrubAssumption
<1> QED
  BY <1>1, <1>2, <1>3, <1>4 DEF Line, OutLine, OutLines

\* The step ends with a finished line.
LEMMA FinishedLine ==
  ASSUME Input, NEW o, NEW n, Written(o, n), out' = o, k' = n, stage' \in {"copy", "overrun"}
  PROVE  ReadyInv'
<1>1. Written(o, n)'
  BY WrittenKept
<1>2. \E oo, nn : out' = oo /\ k' = nn /\ Written(oo, nn)'
  BY <1>1
<1> QED
  BY <1>2 DEF ReadyInv

\* The line at hand gets the words it should have.
LEMMA FinishedWords ==
  ASSUME PatchInv, ReadyInv, stage = "line", Input, k' = k, stage' \in {"copy", "overrun"},
         NEW ws \in Seq(Words), out' = Append(Front(out), OutLine(menu[k].key, ws, k)),
         Ready(OutLine(menu[k].key, ws, k)), menu[k].key = "blscfg" => ~(linux_extra > 0)
  PROVE  ReadyInv'
<1>1. Inputs /\ k \in 1..Len(menu)
  BY GrubAssumption DEF PatchInv, Budget, Inputs
<1>2. PICK o : /\ Written(o, k - 1)
               /\ out = Append(o, OutLine(menu[k].key, menu[k].words, k))
  BY DEF ReadyInv
<1> DEFINE line == OutLine(menu[k].key, ws, k)
<1>3. line \in OutLines /\ OutLine(menu[k].key, menu[k].words, k) \in OutLines /\ k \in Nat \ {0}
  BY <1>1, LineFacts
<1>4. Front(out) = o
  <2>1. o \in Seq(OutLines)
    BY <1>2 DEF Written
  <2> QED
    BY <1>2, <1>3, <2>1, AppendLine
<1>5. line.of = k /\ line.key = menu[k].key
  BY DEF OutLine
<1>6. Written(Append(o, line), k)
  <2> HIDE DEF line
  <2> QED
    BY <1>2, <1>3, <1>5, WrittenLine DEF line
<1> QED
  BY <1>4, <1>6, FinishedLine

LEMMA ReadyPrefix == PatchInv /\ SetPrefix => ReadyInv'
<1> SUFFICES ASSUME PatchInv, SetPrefix PROVE ReadyInv'
    OBVIOUS
<1>1. Input /\ k = 0 /\ k' = 0 /\ stage' = "copy"
  BY DEF SetPrefix, PatchInv, Budget
<1>2. CASE Prefix > 0
  <2>1. out' = Append(<<>>, OutLine("other", <<"word">>, 0))
    BY <1>2 DEF SetPrefix
  <2>2. <<"word">> \in Seq(Words)
    BY DEF Words
  <2>3. Written(Append(<<>>, OutLine("other", <<"word">>, 0)), 0)
    BY <2>2, NothingWritten, WrittenBetween
  <2> QED
    BY <1>1, <2>1, <2>3, FinishedLine
<1>3. CASE ~(Prefix > 0)
  <2>1. out' = <<>>
    BY <1>3 DEF SetPrefix
  <2> QED
    BY <1>1, <2>1, NothingWritten, FinishedLine
<1> QED
  BY <1>2, <1>3

LEMMA ReadyCopy == PatchInv /\ ReadyInv /\ CopyLine => ReadyInv'
<1> SUFFICES ASSUME PatchInv, ReadyInv, CopyLine PROVE ReadyInv'
    OBVIOUS
<1>1. Input /\ stage = "copy" /\ k' = k + 1 /\ stage' \in {"line", "overrun"} /\ menu' = menu
  BY DEF CopyLine, WriteTo, Input
<1>2. k \in Nat
  BY GrubAssumption DEF PatchInv, Budget, Inputs
<1>3. Written(out, k)
  BY <1>1 DEF ReadyInv
<1> DEFINE n == k + 1
           ws == menu[n].words
<1>4. out' = Append(out, OutLine(menu'[n].key, ws, n)) /\ ws = menu'[n].words /\ k' = n /\ n - 1 = k
  BY <1>1, <1>2 DEF CopyLine
<1>5. Written(out, n - 1)
  BY <1>3, <1>4
<1> HIDE DEF n, ws
<1>6. \A o, m : Written(o, m) => Written(o, m)'
  BY <1>1, WrittenKept
<1>7. \E o, m, w : /\ k' = m /\ Written(o, m - 1)'
                   /\ w = menu'[m].words /\ out' = Append(o, OutLine(menu'[m].key, w, m))
  BY <1>4, <1>5, <1>6
<1> QED
  BY <1>1, <1>7 DEF ReadyInv

LEMMA ReadyLinux == PatchInv /\ ReadyInv /\ PatchLinux => ReadyInv'
<1> SUFFICES ASSUME PatchInv, ReadyInv, PatchLinux PROVE ReadyInv'
    OBVIOUS
<1> DEFINE ws == menu[k].words
           new == InsertAfterKernel(Kept(ws), "ours")
           line == OutLine(menu[k].key, new, k)
<1>1. /\ Input /\ stage = "line" /\ menu[k].key = "linux" /\ k' = k /\ ~Contains(ws, "ours")
      /\ out' = Append(Front(out), line) /\ menu' = menu
      /\ stage' \in {IF eol_extra > 0 THEN "eol" ELSE "copy", "overrun"}
  BY DEF PatchLinux, AtLine, Becomes, WriteTo, words, Input
<1>2. Inputs /\ k \in 1..Len(menu) /\ eol_extra \in Nat
  <2>1. Inputs /\ k \in 1..Len(menu)
    BY <1>1, GrubAssumption DEF PatchInv, Budget, Inputs
  <2> QED
    BY <2>1, Lengths
<1>3. ws \in Seq(Words) /\ (ws = <<>> \/ Head(ws) = "word")
  BY <1>1, <1>2, LineFacts
<1>4. /\ new \in Seq(Words) /\ Original(new) = Original(ws)
      /\ Removes => ~Contains(new, "locator")
      /\ \E p \in 1..Len(new) : /\ Places(new, "ours") = {p}
                                /\ \A j \in Places(new, "---") : p < j
  BY <1>1, <1>3, KernelInserted
<1> HIDE DEF new
<1>5. line.words = new /\ line.of = k /\ line.key = "linux"
  BY <1>1 DEF OutLine
<1>6. CASE ~(eol_extra > 0)
  <2>1. Cardinality(Places(new, "ours")) = 1
    BY <1>4, FS_Singleton
  <2>2. \A i \in Places(new, "ours") : \A j \in Places(new, "---") : i < j
    BY <1>4
  <2>3. KernelReady(line)
    BY <1>4, <1>5, <1>6, <2>1, <2>2 DEF KernelReady
  <2>4. Ready(line)
    BY <1>4, <1>5, <2>3 DEF Ready
  <2> QED
    BY <1>1, <1>4, <1>6, <2>4, FinishedWords
<1>7. CASE eol_extra > 0
  <2>1. PICK o : Written(o, k - 1) /\ out = Append(o, OutLine(menu[k].key, ws, k))
    BY <1>1 DEF ReadyInv
  <2>2. Front(out) = o
    <3>1. o \in Seq(OutLines) /\ OutLine(menu[k].key, ws, k) \in OutLines
      BY <1>2, <1>3, <2>1, LineFacts DEF Written
    <3> QED
      BY <2>1, <3>1, AppendLine
  <2>3. \A oo, m : Written(oo, m) => Written(oo, m)'
    BY <1>1, WrittenKept
  <2>4. Kept(ws)' = Kept(ws)
    BY <1>1, WrittenKept DEF ws
  <2>5. \E oo, m, w, v : /\ k' = m /\ Written(oo, m - 1)'
                         /\ w = menu'[m].words /\ ~Contains(w, "ours")
                         /\ v = InsertAfterKernel(Kept(w)', "ours")
                         /\ out' = Append(oo, OutLine(menu'[m].key, v, m))
    BY <1>1, <2>1, <2>2, <2>3, <2>4 DEF new
  <2> QED
    BY <1>1, <1>7, <2>5 DEF ReadyInv
<1> QED
  BY <1>6, <1>7
LEMMA ReadyEol == PatchInv /\ ReadyInv /\ InjectEol => ReadyInv'
<1> SUFFICES ASSUME PatchInv, ReadyInv, InjectEol PROVE ReadyInv'
    OBVIOUS
<1>1. Input /\ stage = "eol" /\ k' = k /\ stage' \in {"copy", "overrun"}
  BY DEF InjectEol, WriteTo
<1>2. Inputs /\ k \in 1..Len(menu) /\ menu[k].key = "linux"
  BY <1>1, GrubAssumption DEF PatchInv, Budget, Inputs
<1> DEFINE ws == menu[k].words
           r == InsertAfterKernel(Kept(ws), "ours")
           at == CHOOSE i \in DOMAIN r : r[i] = "ours"
           q == InsertAt(r, at + 1, "eol")
           line == OutLine(menu[k].key, q, k)
<1>3. PICK o : /\ Written(o, k - 1) /\ ~Contains(ws, "ours")
               /\ out = Append(o, OutLine(menu[k].key, r, k))
  BY <1>1 DEF ReadyInv
<1>4. ws \in Seq(Words) /\ (ws = <<>> \/ Head(ws) = "word") /\ k \in Nat \ {0}
  BY <1>2, LineFacts
<1>5. /\ r \in Seq(Words) /\ Original(r) = Original(ws)
      /\ Removes => ~Contains(r, "locator")
      /\ \E p \in 1..Len(r) : /\ Places(r, "ours") = {p}
                              /\ \A j \in Places(r, "---") : p < j
  BY <1>3, <1>4, KernelInserted
<1>6. OutLine(menu[k].key, r, k) \in OutLines
  BY <1>2, <1>5, LineFacts
<1>7. Front(out) = o /\ Last(out) = OutLine(menu[k].key, r, k)
  <2>1. o \in Seq(OutLines)
    BY <1>3 DEF Written
  <2> QED
    BY <1>3, <1>6, <2>1, AppendLine
<1>8. Last(out).words = r
  BY <1>7 DEF OutLine
<1> HIDE DEF r
<1>9. out' = Append(o, line)
  BY <1>7, <1>8 DEF InjectEol, Becomes
<1>10. PICK p \in 1..Len(r) : Places(r, "ours") = {p} /\ \A j \in Places(r, "---") : p < j
  BY <1>5
<1>11. /\ q \in Seq(Words) /\ Original(q) = Original(r)
       /\ ~Contains(r, "locator") => ~Contains(q, "locator")
       /\ Places(q, "ours") = {p} /\ p < Len(q) /\ q[p + 1] = "eol"
       /\ \A j \in Places(q, "---") : p < j
  BY <1>5, <1>10, PathInserted
<1> HIDE DEF q
<1>12. line \in OutLines
  BY <1>2, <1>11, LineFacts
<1>13. line.words = q /\ line.of = k /\ line.key = "linux"
  BY <1>2 DEF OutLine
<1>14. KernelReady(line)
  <2>1. Cardinality(Places(q, "ours")) = 1
    BY <1>11, FS_Singleton
  <2>2. ASSUME NEW i \in Places(q, "ours")
        PROVE  i < Len(q) /\ q[i + 1] = "eol" /\ \A j \in Places(q, "---") : i < j
    BY <1>11, <2>2
  <2>3. Removes => ~Contains(q, "locator")
    BY <1>5, <1>11
  <2> QED
    BY <1>13, <2>1, <2>2, <2>3 DEF KernelReady
<1>15. Ready(line)
  BY <1>5, <1>11, <1>13, <1>14 DEF Ready
<1> HIDE DEF line
<1>16. Written(Append(o, line), k)
  BY <1>3, <1>4, <1>12, <1>13, <1>15, WrittenLine
<1> QED
  BY <1>1, <1>9, <1>16, FinishedLine

LEMMA ReadyBls == PatchInv /\ ReadyInv /\ PatchBls => ReadyInv'
<1> SUFFICES ASSUME PatchInv, ReadyInv, PatchBls PROVE ReadyInv'
    OBVIOUS
<1>1. /\ Input /\ stage = "line" /\ menu[k].key = "blscfg" /\ k' = k
      /\ stage' \in {"copy", "overrun"}
  BY DEF PatchBls, AtLine, WriteTo
<1>2. Inputs /\ k \in 1..Len(menu)
  BY <1>1, GrubAssumption DEF PatchInv, Budget, Inputs
<1> DEFINE ws == menu[k].words
           line == OutLine(menu[k].key, ws, k)
           sets == OutLine("other", <<"ours">>, 0)
<1>3. PICK o : Written(o, k - 1) /\ out = Append(o, line)
  BY <1>1 DEF ReadyInv
<1>4. o \in Seq(OutLines) /\ line \in OutLines /\ k \in Nat \ {0}
  BY <1>2, <1>3, LineFacts DEF Written
<1>5. <<"ours">> \in Seq(Words)
  BY DEF Words
<1>6. sets \in OutLines /\ Sets(sets)
  BY <1>5 DEF OutLine, OutLines, Keywords, Sets
<1>7. line.words = ws /\ line.of = k /\ line.key = "blscfg"
  BY <1>1 DEF OutLine
<1>8. Ready(line)
  BY <1>7 DEF Ready
<1>9. Written(Append(o, sets), k - 1)
  BY <1>3, <1>5, WrittenBetween
<1>10. Front(out) = o /\ Last(out) = line
  BY <1>3, <1>4, AppendLine
<1>11. out' = o \o <<sets, line>>
  BY <1>10 DEF PatchBls
<1> HIDE DEF line, sets
<1>12. out' = Append(Append(o, sets), line)
  BY <1>4, <1>6, <1>11
<1>13. Append(o, sets) # <<>> /\ Sets(Last(Append(o, sets)))
  <2>1. Last(Append(o, sets)) = sets /\ Len(Append(o, sets)) = Len(o) + 1
    BY <1>4, <1>6, AppendLine
  <2>2. Append(o, sets) # <<>>
    <3>1. Len(o) \in Nat /\ Len(<<>>) = 0
      BY <1>4
    <3> QED
      BY <2>1, <3>1
  <2> QED
    BY <1>6, <2>1, <2>2
<1> DEFINE oo == Append(o, sets)
<1> HIDE DEF oo
<1>14. Written(Append(oo, line), k)
  BY <1>4, <1>7, <1>8, <1>9, <1>13, WrittenLine DEF oo
<1> QED
  BY <1>1, <1>12, <1>14, FinishedLine DEF oo

LEMMA ReadyOptions == PatchInv /\ ReadyInv /\ PatchOptions => ReadyInv'
<1> SUFFICES ASSUME PatchInv, ReadyInv, PatchOptions PROVE ReadyInv'
    OBVIOUS
<1> DEFINE ws == menu[k].words
           v == WithoutLocators(ws)
           new == IF linux_extra > 0 THEN Append(v, "ours") ELSE v
           line == OutLine(menu[k].key, new, k)
<1>1. /\ Input /\ stage = "line" /\ menu[k].key = "options" /\ k' = k
      /\ stage' \in {"copy", "overrun"} /\ out' = Append(Front(out), line)
  BY DEF PatchOptions, AtLine, WriteTo, Becomes, words
<1>2. Inputs /\ k \in 1..Len(menu)
  BY <1>1, GrubAssumption DEF PatchInv, Budget, Inputs
<1>3. ws \in Seq(Words)
  BY <1>2, LineFacts
<1>4. v \in Seq(Words) /\ ~Contains(v, "locator") /\ Original(v) = Original(ws)
  BY <1>3, WithoutFacts
<1> HIDE DEF v
<1>5. new \in Seq(Words) /\ Original(new) = Original(ws)
  <2>1. "ours" \in Words /\ "ours" \notin Theirs
    BY DEF Words, Theirs, Injected
  <2>2. Only(Append(v, "ours"), Theirs) = Only(v, Theirs) \o Piece("ours", Theirs)
    BY <1>4, <2>1, OnlyAppend
  <2>3. Only(v, Theirs) \in Seq(Words)
    BY <1>4, OnlyAppend
  <2>4. Only(v, Theirs) \o <<>> = Only(v, Theirs)
    BY <2>3
  <2>5. Original(Append(v, "ours")) = Original(v)
    BY <2>1, <2>2, <2>4 DEF Original, Piece, Theirs
  <2>6. Append(v, "ours") \in Seq(Words)
    BY <1>4, <2>1
  <2> QED
    BY <1>4, <2>5, <2>6
<1>6. linux_extra > 0 => Last(new) = "ours" /\ ~Contains(new, "locator")
  <2>1. SUFFICES ASSUME linux_extra > 0 PROVE Last(new) = "ours" /\ ~Contains(new, "locator")
    OBVIOUS
  <2>2. new = Append(v, "ours")
    BY <2>1
  <2> HIDE DEF new
  <2>3. Len(new) = Len(v) + 1 /\ new[Len(v) + 1] = "ours" /\ \A i \in 1..Len(v) : new[i] = v[i]
    BY <1>4, <2>2
  <2>4. Len(v) \in Nat /\ \A i \in 1..Len(v) : v[i] # "locator"
    BY <1>4 DEF Contains
  <2>5. \A i \in 1..Len(new) : new[i] # "locator"
    BY <2>3, <2>4
  <2> QED
    BY <2>3, <2>5 DEF Last, Contains
<1> HIDE DEF new
<1>7. line.words = new /\ line.of = k /\ line.key = "options"
  BY <1>1 DEF OutLine
<1>8. Ready(line)
  BY <1>5, <1>6, <1>7 DEF Ready
<1> QED
  BY <1>1, <1>5, <1>8, FinishedWords

LEMMA ReadyInitrd == PatchInv /\ ReadyInv /\ PatchInitrd => ReadyInv'
<1> SUFFICES ASSUME PatchInv, ReadyInv, PatchInitrd PROVE ReadyInv'
    OBVIOUS
<1> DEFINE ws == menu[k].words
           new == Append(ws, "archive")
           line == OutLine(menu[k].key, new, k)
<1>1. /\ Input /\ stage = "line" /\ menu[k].key = "initrd" /\ k' = k
      /\ stage' \in {"copy", "overrun"} /\ out' = Append(Front(out), line)
      /\ ~Contains(ws, "archive")
  BY DEF PatchInitrd, AtLine, WriteTo, Becomes, words, TakesArchive
<1>2. Inputs /\ k \in 1..Len(menu)
  BY <1>1, GrubAssumption DEF PatchInv, Budget, Inputs
<1>3. ws \in Seq(Words)
  BY <1>2, LineFacts
<1> HIDE DEF ws
<1>4. new \in Seq(Words) /\ Original(new) = Original(ws)
  <2>1. "archive" \in Words /\ "archive" \notin Theirs
    BY DEF Words, Theirs, Injected
  <2>2. Only(Append(ws, "archive"), Theirs) = Only(ws, Theirs) \o Piece("archive", Theirs)
    BY <1>3, <2>1, OnlyAppend
  <2>3. Only(ws, Theirs) \in Seq(Words)
    BY <1>3, OnlyAppend
  <2>4. Only(ws, Theirs) \o <<>> = Only(ws, Theirs)
    BY <2>3
  <2>5. Original(new) = Original(ws)
    BY <2>1, <2>2, <2>4 DEF Original, Piece, Theirs
  <2> QED
    BY <1>3, <2>1, <2>5
<1>5. Cardinality(Places(new, "archive")) = 1
  <2>1. /\ DOMAIN new = 1..Len(ws) + 1 /\ new[Len(ws) + 1] = "archive" /\ Len(ws) \in Nat
        /\ \A i \in 1..Len(ws) : new[i] = ws[i]
    BY <1>3
  <2>2. \A i \in 1..Len(ws) : ws[i] # "archive"
    BY <1>1 DEF Contains
  <2> HIDE DEF new
  <2>3. Places(new, "archive") = {Len(ws) + 1}
    BY <2>1, <2>2 DEF Places
  <2> QED
    BY <2>3, FS_Singleton
<1> HIDE DEF new
<1>6. line.words = new /\ line.of = k /\ line.key = "initrd"
  BY <1>1 DEF OutLine
<1>7. Ready(line)
  BY <1>4, <1>5, <1>6 DEF Ready, ArchiveReady, ws
<1> QED
  BY <1>1, <1>4, <1>7, FinishedWords DEF ws

LEMMA ReadyLeave == PatchInv /\ ReadyInv /\ LeaveLine => ReadyInv'
<1> SUFFICES ASSUME PatchInv, ReadyInv, LeaveLine PROVE ReadyInv'
    OBVIOUS
<1> DEFINE ws == menu[k].words
           line == OutLine(menu[k].key, ws, k)
<1>1. /\ Input /\ stage = "line" /\ k' = k /\ stage' \in {"copy", "overrun"} /\ out' = out
      /\ \/ menu[k].key = "linux" /\ Contains(ws, "ours")
         \/ menu[k].key = "blscfg" /\ linux_extra = 0
         \/ menu[k].key = "initrd" /\ ~TakesArchive
         \/ menu[k].key \in {"menuentry", "configfile", "other"}
  BY DEF LeaveLine, AtLine, words
<1>2. Inputs /\ k \in 1..Len(menu)
  BY <1>1, GrubAssumption DEF PatchInv, Budget, Inputs
<1>3. ws \in Seq(Words) /\ LenOf(menu[k]) \in Nat /\ dedup \in Nat
  BY <1>2, LineFacts
<1>4. PICK o : Written(o, k - 1) /\ out = Append(o, line)
  BY <1>1 DEF ReadyInv
<1>5. Front(out) = o
  <2>1. o \in Seq(OutLines) /\ line \in OutLines
    BY <1>2, <1>3, <1>4, LineFacts DEF Written
  <2> QED
    BY <1>4, <2>1, AppendLine
<1>6. line.words = ws /\ line.of = k /\ line.key = menu[k].key
  BY DEF OutLine
<1>7. menu[k].key = "initrd" => ArchiveReady(line)
  <2>1. SUFFICES ASSUME menu[k].key = "initrd" PROVE ArchiveReady(line)
    OBVIOUS
  <2>2. Contains(ws, "archive") \/ ~(dedup <= LenOf(menu[k]))
    BY <1>1, <2>1 DEF TakesArchive, words
  <2>3. ~(dedup <= LenOf(menu[k])) => LenOf(menu[k]) < dedup
    BY <1>3
  <2> QED
    BY <1>6, <2>2, <2>3 DEF ArchiveReady
<1>8. Ready(line)
  BY <1>1, <1>6, <1>7 DEF Ready, KernelReady
<1>9. out' = Append(Front(out), line)
  BY <1>1, <1>4, <1>5
<1>10. menu[k].key = "blscfg" => ~(linux_extra > 0)
  BY <1>1
<1> QED
  BY <1>1, <1>3, <1>8, <1>9, <1>10, FinishedWords

LEMMA ReadyFinish == PatchInv /\ ReadyInv /\ Finish => ReadyInv'
<1> SUFFICES ASSUME PatchInv, ReadyInv, Finish PROVE ReadyInv'
    OBVIOUS
<1>1. /\ Input /\ stage = "copy" /\ k' = k /\ out' = out /\ stage' \in {"done", "unchanged"}
      /\ k = Len(menu) /\ menu' = menu
  BY DEF Finish, Input
<1>2. Written(out, k)
  BY <1>1 DEF ReadyInv
<1>3. Written(out, k) => \E o, n : out = o /\ k = n /\ Written(o, n)
  OBVIOUS
<1>4. PICK o, n : out = o /\ k = n /\ Written(o, n)
  BY <1>2, <1>3
<1>5. Written(o, n)'
  BY <1>1, <1>4, WrittenKept
<1>6. \E oo, m : out' = oo /\ k' = m /\ Written(oo, m)'
  BY <1>1, <1>4, <1>5
<1> QED
  BY <1>1, <1>6 DEF ReadyInv

LEMMA ReadyStutter == ReadyInv /\ UNCHANGED patchVars => ReadyInv'
<1> SUFFICES ASSUME ReadyInv, UNCHANGED patchVars PROVE ReadyInv'
    OBVIOUS
<1>1. Input /\ stage' = stage /\ k' = k /\ out' = out /\ menu' = menu
  BY DEF patchVars, Input
<1>2. \A o, n : Written(o, n) => Written(o, n)'
  BY <1>1, WrittenKept
<1>3. \A ws : Kept(ws)' = Kept(ws)
  BY <1>1, WrittenKept
<1> QED
  BY <1>1, <1>2, <1>3 DEF ReadyInv

LEMMA StepReadyInv == PatchInv /\ ReadyInv /\ [PatchNext]_patchVars => ReadyInv'
<1> SUFFICES ASSUME PatchInv, ReadyInv, [PatchNext]_patchVars PROVE ReadyInv'
    OBVIOUS
<1>1. CASE SkipMenu \/ Allocate \/ AllocateFails \/ WindowOfZero
  BY <1>1 DEF ReadyInv, SkipMenu, Allocate, AllocateFails, WindowOfZero
<1>2. CASE SetPrefix
  BY <1>2, ReadyPrefix
<1>3. CASE CopyLine
  BY <1>3, ReadyCopy
<1>4. CASE PatchLinux
  BY <1>4, ReadyLinux
<1>5. CASE InjectEol
  BY <1>5, ReadyEol
<1>6. CASE PatchBls
  BY <1>6, ReadyBls
<1>7. CASE PatchOptions
  BY <1>7, ReadyOptions
<1>8. CASE PatchInitrd
  BY <1>8, ReadyInitrd
<1>9. CASE LeaveLine
  BY <1>9, ReadyLeave
<1>10. CASE Finish
  BY <1>10, ReadyFinish
<1>11. CASE UNCHANGED patchVars
  BY <1>11, ReadyStutter
<1> QED
  BY <1>1, <1>2, <1>3, <1>4, <1>5, <1>6, <1>7, <1>8, <1>9, <1>10, <1>11 DEF PatchNext

\* Whatever the menu, the finished one has its lines in order, and each of its
\* entries has the arguments and the archive once and in their place.
THEOREM EntriesCorrect == PatchSpec => []EntriesReady
<1>1. PatchInit => PatchInv /\ ReadyInv
  BY InitPatchInv DEF PatchInit, ReadyInv
<1>2. PatchInv /\ [PatchNext]_patchVars => PatchInv'
  BY StepPatchInv
<1>3. PatchInv /\ ReadyInv /\ [PatchNext]_patchVars => ReadyInv'
  BY StepReadyInv
<1>4. ReadyInv => EntriesReady
  <2> SUFFICES ASSUME ReadyInv, stage = "done" PROVE EntriesReady
      BY DEF EntriesReady
  <2>1. Written(out, Len(menu))
    BY DEF ReadyInv
  <2> QED
    BY <2>1 DEF Written, EntriesReady, Ready, Sets
<1> QED
  BY <1>1, <1>2, <1>3, <1>4, PTL DEF PatchSpec

-----------------------------------------------------------------------------
(* The premount init.                                                      *)

Free == Attached = {} /\ cdrom = NoLoop

\* Exactly one loop device is attached, to the target.
Held == /\ \E l \in Loops : loops[l] = target /\ Attached = {l}
        /\ target # NoDevice
        /\ cdrom = NoLoop

\* Which loop devices are attached is a matter of where the program is.
LoopInv ==
  /\ loops \in [Loops -> Devices \cup {NoDevice}]
  /\ present \subseteq Devices /\ todo \in Seq(Devices)
  /\ pc \in {"lookup", "attach", "offset", "mount", "list", "scan", "init"}
  /\ pc \in {"lookup", "list", "scan"} => Free
  /\ pc = "attach" => Free /\ target \in Devices
  /\ pc \in {"offset", "mount"} => Held
  /\ pc = "init" => Free \/ (cdrom \in Loops /\ Attached = {cdrom})

LEMMA InitLoopInv == Init => LoopInv
  BY PremountAssumption DEF Init, LoopInv, Free, Attached

\* Detach leaves nothing attached if only the target was.
LEMMA DetachFrees ==
  ASSUME loops \in [Loops -> Devices \cup {NoDevice}], Held, Detach
  PROVE  /\ loops' \in [Loops -> Devices \cup {NoDevice}]
         /\ Attached' = {}
  BY DEF Held, Detach, Attached

\* The partitions in any order are a sequence of devices.
LEMMA OrdersAreSequences ==
  ASSUME present \subseteq Devices
  PROVE  SetToSeqs(present) \subseteq Seq(Devices)
<1>1. Cardinality(present) \in Nat
  BY PremountAssumption, FS_Subset, FS_CardinalityType
<1>. QED
  BY <1>1 DEF SetToSeqs

LEMMA NextLoopInv == LoopInv /\ [Next]_vars => LoopInv'
<1> SUFFICES ASSUME LoopInv, [Next]_vars PROVE LoopInv'
  OBVIOUS
<1> USE PremountAssumption
<1>1. CASE FindTarget
  <2>1. target' \in Devices
    BY <1>1 DEF FindTarget, Targets, ByPartuuid, ByPartnum, LoopInv
  <2>. QED
    BY <1>1, <2>1 DEF FindTarget, At, LoopInv, Free, Attached
<1>2. CASE Retry
  BY <1>2 DEF Retry, At, LoopInv, Free, Attached
<1>3. CASE Attach
  <2>1. PICK l \in Loops : loops[l] = NoDevice /\ loops' = [loops EXCEPT ![l] = target]
    BY <1>3 DEF Attach
  <2>2. target \in Devices /\ Attached = {} /\ cdrom = NoLoop
    BY <1>3 DEF Attach, At, LoopInv, Free
  <2>3. Attached' = {l} /\ loops'[l] = target
    BY <2>1, <2>2 DEF Attached, LoopInv
  <2>4. target' = target /\ cdrom' = cdrom /\ pc' = "offset" /\ todo' = todo
         /\ present' = present
    BY <1>3 DEF Attach, At
  <2>5. loops' \in [Loops -> Devices \cup {NoDevice}]
    BY <2>1, <2>2 DEF LoopInv
  <2>6. Held'
    BY <2>2, <2>3, <2>4 DEF Held
  <2>. QED
    BY <2>4, <2>5, <2>6 DEF LoopInv
<1>4. CASE AttachFails
  BY <1>4 DEF AttachFails, At, GiveUp, NextPlace, LoopInv, Free, Attached
<1>5. CASE SetOffset
  BY <1>5 DEF SetOffset, At, LoopInv, Held, Attached
<1>6. CASE SetOffsetFails
  <2>1. loops' \in [Loops -> Devices \cup {NoDevice}] /\ Attached' = {}
    BY <1>6, DetachFrees DEF SetOffsetFails, At, LoopInv
  <2>. QED
    BY <1>6, <2>1 DEF SetOffsetFails, At, GiveUp, NextPlace, LoopInv, Held, Free
<1>7. CASE Mount
  <2>1. PICK l \in Loops : loops[l] = target /\ cdrom' = l
    BY <1>7 DEF Mount
  <2>2. Attached = {l}
    BY <1>7, <2>1 DEF Mount, At, LoopInv, Held, Attached
  <2>. QED
    BY <1>7, <2>1, <2>2 DEF Mount, At, LoopInv, Attached
<1>8. CASE MountFails
  <2>1. loops' \in [Loops -> Devices \cup {NoDevice}] /\ Attached' = {}
    BY <1>8, DetachFrees DEF MountFails, At, LoopInv
  <2>. QED
    BY <1>8, <2>1 DEF MountFails, At, GiveUp, NextPlace, LoopInv, Held, Free
<1>9. CASE ReadPartitions
  <2>1. todo' \in Seq(Devices)
    BY <1>9, OrdersAreSequences DEF ReadPartitions, LoopInv
  <2>. QED
    BY <1>9, <2>1 DEF ReadPartitions, At, LoopInv, Free, Attached
<1>10. CASE ScanNext
  BY <1>10 DEF ScanNext, At, LoopInv, Free, Attached
<1>11. CASE ScanEnd
  BY <1>11 DEF ScanEnd, At, LoopInv, Free, Attached
<1>12. CASE Arrive
  BY <1>12 DEF Arrive, LoopInv, Free, Held, Attached
<1>13. CASE UNCHANGED vars
  BY <1>13 DEF vars, LoopInv, Free, Held, Attached
<1>14. CASE ReadPartitionsFails
  BY <1>14 DEF ReadPartitionsFails, At, LoopInv, Free, Attached
<1>. QED
  BY <1>1, <1>2, <1>3, <1>4, <1>5, <1>6, <1>7, <1>8, <1>9, <1>10, <1>11, <1>12, <1>13, <1>14
     DEF Next, Process

\* At most one loop device is attached at any moment, and init inherits none
\* but the one under /cdrom: try_mount_iso clears every binding it gives up.
THEOREM LoopsCorrect == Spec => []LoopsReleased
<1>1. LoopInv => LoopsReleased
  BY PremountAssumption DEF LoopInv, Free, Held, LoopsReleased, Attached
<1>. QED
  BY InitLoopInv, NextLoopInv, <1>1, PTL DEF Spec

-----------------------------------------------------------------------------
(* Nothing is missed.                                                      *)

\* The order of the partitions has each of them.
LEMMA OrdersAreComplete ==
  ASSUME present \subseteq Devices, NEW s \in SetToSeqs(present), NEW d \in present
  PROVE  \E i \in 1..Len(s) : s[i] = d
<1> DEFINE n == Cardinality(present)
<1>1. IsFiniteSet(present) /\ n \in Nat
  BY PremountAssumption, FS_Subset, FS_CardinalityType
<1>2. IsFiniteSet(1..n) /\ Cardinality(1..n) = n
  BY <1>1, FS_Interval
<1>3. s \in Injection(1..n, present)
  BY DEF SetToSeqs, Injection, IsInjective
<1>4. s \in Surjection(1..n, present)
  BY <1>1, <1>2, <1>3, FS_Injection, Zenon
<1>5. Len(s) = n
  BY <1>1 DEF SetToSeqs
<1>. QED
  BY <1>4, <1>5 DEF Surjection

Pending(d) == \/ \E i \in 1..Len(todo) : todo[i] = d
              \/ pc \in {"attach", "offset", "mount"} /\ target = d

\* As long as nothing has failed or been mounted, an image in the list is
\* still to be tried.
SeenInv == /\ failures \in Nat
           /\ pc \in {"lookup", "list"} => listed = {}
           /\ failures = 0 /\ cdrom = NoLoop => \A d \in listed \cap iso : Pending(d)

LEMMA NextSeenInv == LoopInv /\ SeenInv /\ [Next]_vars => SeenInv'
<1> SUFFICES ASSUME LoopInv, SeenInv, [Next]_vars PROVE SeenInv'
  OBVIOUS
<1> USE PremountAssumption
<1>1. CASE FindTarget
  BY <1>1 DEF FindTarget, At, world, SeenInv
<1>2. CASE Retry
  BY <1>2 DEF Retry, At, world, SeenInv
<1>3. CASE Attach
  BY <1>3 DEF Attach, At, world, SeenInv, Pending
<1>4. CASE AttachFails
  BY <1>4 DEF AttachFails, At, world, GiveUp, NextPlace, Scanning, Fail, SeenInv
<1>5. CASE SetOffset
  BY <1>5 DEF SetOffset, At, world, SeenInv, Pending
<1>6. CASE SetOffsetFails
  BY <1>6 DEF SetOffsetFails, At, world, GiveUp, NextPlace, Scanning, Fail, SeenInv
<1>7. CASE Mount
  BY <1>7 DEF Mount, At, world, SeenInv
<1>8. CASE MountFails
  <2>1. CASE Fail
    BY <1>8, <2>1 DEF MountFails, At, world, GiveUp, NextPlace, Scanning, Fail, SeenInv
  <2>2. CASE target \notin iso /\ UNCHANGED failures
    BY <1>8, <2>2 DEF MountFails, At, world, GiveUp, NextPlace, Scanning, SeenInv, Pending
  <2>. QED
    BY <1>8, <2>1, <2>2 DEF MountFails
<1>9. CASE ReadPartitions
  <2>1. \A d \in present : \E i \in 1..Len(todo') : todo'[i] = d
    BY <1>9, OrdersAreComplete DEF ReadPartitions, LoopInv
  <2>2. \A d \in listed' : Pending(d)'
    BY <1>9, <2>1 DEF ReadPartitions, Pending
  <2>. QED
    BY <1>9, <2>2 DEF ReadPartitions, At, world, SeenInv
<1>10. CASE ScanNext
  <2>1. todo \in Seq(Devices) /\ todo # <<>> /\ target' = Head(todo) /\ todo' = Tail(todo)
        /\ pc = "scan" /\ pc' = "attach" /\ UNCHANGED <<listed, iso, cdrom, failures>>
    BY <1>10 DEF ScanNext, At, world, LoopInv
  <2>2. ASSUME NEW d, NEW i \in 1..Len(todo), todo[i] = d
        PROVE  Pending(d)'
    <3>1. CASE i = 1
      BY <2>1, <2>2, <3>1 DEF Pending
    <3>2. CASE i # 1
      <4>1. i - 1 \in 1..Len(todo') /\ todo'[i - 1] = d
        BY <2>1, <2>2, <3>2
      <4>. QED
        BY <4>1 DEF Pending
    <3>. QED
      BY <3>1, <3>2
  <2>3. failures' = 0 /\ cdrom' = NoLoop => \A d \in (listed \cap iso)' : Pending(d)'
    BY <2>1, <2>2 DEF SeenInv, Pending
  <2>. QED
    BY <2>1, <2>3 DEF SeenInv
<1>11. CASE ScanEnd
  BY <1>11 DEF ScanEnd, At, world, SeenInv, Pending
<1>12. CASE Arrive
  BY <1>12 DEF Arrive, world, SeenInv, Pending
<1>13. CASE UNCHANGED vars
  BY <1>13 DEF vars, world, SeenInv, Pending
<1>14. CASE ReadPartitionsFails
  BY <1>14 DEF ReadPartitionsFails, At, world, Fail, SeenInv
<1>. QED
  BY <1>1, <1>2, <1>3, <1>4, <1>5, <1>6, <1>7, <1>8, <1>9, <1>10, <1>11, <1>12, <1>13, <1>14
     DEF Next, Process

\* Where the scan can end, nothing is to be tried.
Done == pc = "init" /\ cdrom = NoLoop /\ failures = 0 => todo = <<>>

LEMMA NextDone == LoopInv /\ SeenInv /\ Done /\ [Next]_vars => Done'
<1> SUFFICES ASSUME LoopInv, SeenInv, Done, [Next]_vars PROVE Done'
  OBVIOUS
<1> USE PremountAssumption
<1>1. CASE Mount
  BY <1>1 DEF Mount, Done
<1>2. CASE ReadPartitions
  <2>1. CASE present = {}
    <3>1. todo' \in SetToSeqs({}) /\ todo' \in Seq(Devices)
      BY <1>2, <2>1, OrdersAreSequences DEF ReadPartitions, LoopInv
    <3>2. Cardinality({}) = 0
      BY FS_EmptySet
    <3>3. Len(todo') = 0
      BY <3>1, <3>2 DEF SetToSeqs
    <3>. QED
      BY <3>1, <3>3 DEF Done
  <2>2. CASE present # {}
    BY <1>2, <2>2 DEF ReadPartitions, Done
  <2>. QED
    BY <2>1, <2>2
<1>3. CASE ScanEnd
  BY <1>3 DEF ScanEnd, Done
<1>4. CASE FindTarget \/ Retry \/ Attach \/ SetOffset \/ ScanNext \/ Arrive
  BY <1>4 DEF FindTarget, Retry, Attach, SetOffset, ScanNext, Arrive, At, Done
<1>5. CASE AttachFails \/ SetOffsetFails \/ MountFails
  BY <1>5 DEF AttachFails, SetOffsetFails, MountFails, GiveUp, NextPlace, Done
<1>6. CASE UNCHANGED vars
  BY <1>6 DEF vars, Done
<1>7. CASE ReadPartitionsFails
  BY <1>7 DEF ReadPartitionsFails, Fail, SeenInv, Done
<1>. QED
  BY <1>1, <1>2, <1>3, <1>4, <1>5, <1>6, <1>7 DEF Next, Process

\* When no call fails and still nothing is mounted, no partition that scan_all
\* read has an image at the offset.
THEOREM NothingMissedCorrect == Spec => []NothingMissed
<1>1. Init => SeenInv /\ Done
  BY DEF Init, SeenInv, Done
<1>2. LoopInv /\ SeenInv /\ Done => NothingMissed
  BY DEF SeenInv, Done, NothingMissed, Pending
<1>. QED
  BY InitLoopInv, NextLoopInv, NextSeenInv, NextDone, <1>1, <1>2, PTL DEF Spec

-----------------------------------------------------------------------------
(* The PARTUUID decides.                                                   *)

\* With the stick there from the start the first lookup finds it, and nothing
\* else is ever tried.
GuidInv ==
  /\ failures \in Nat
  /\ early => Stick \in present
  /\ early /\ named /\ Stick \in iso /\ failures = 0 =>
       \/ pc = "lookup" /\ attempt = 0
       \/ pc \in {"attach", "offset", "mount", "init"} /\ target = Stick

LEMMA NextGuidInv == GuidInv /\ [Next]_vars => GuidInv'
<1> SUFFICES ASSUME GuidInv, [Next]_vars PROVE GuidInv'
  OBVIOUS
<1> USE PremountAssumption
<1>1. CASE FindTarget \/ Retry
  BY <1>1 DEF FindTarget, Retry, Targets, ByPartuuid, At, world, GuidInv
<1>2. CASE Attach \/ SetOffset \/ Mount
  BY <1>2 DEF Attach, SetOffset, Mount, At, world, GuidInv
<1>3. CASE AttachFails \/ SetOffsetFails \/ MountFails
  BY <1>3 DEF AttachFails, SetOffsetFails, MountFails, GiveUp, Fail, At, world, GuidInv
<1>4. CASE ReadPartitions \/ ReadPartitionsFails \/ ScanNext \/ ScanEnd
  BY <1>4 DEF ReadPartitions, ReadPartitionsFails, ScanNext, ScanEnd, Fail, At, world, GuidInv
<1>5. CASE Arrive
  BY <1>5 DEF Arrive, world, GuidInv
<1>6. CASE UNCHANGED vars
  BY <1>6 DEF vars, world, GuidInv
<1>. QED
  BY <1>1, <1>2, <1>3, <1>4, <1>5, <1>6 DEF Next, Process

\* A stick that is there from the start, known by its PARTUUID and with its
\* image in place, is the one whose image is mounted.
THEOREM GuidCorrect == Spec => []GuidDecides
<1>1. Init => GuidInv
  <2>1. Init => (early => Stick \in present)
    BY Zenon DEF Init
  <2>2. Init => failures \in Nat /\ pc = "lookup" /\ attempt = 0
    BY DEF Init
  <2>. QED
    BY <2>1, <2>2, Zenon DEF GuidInv
<1>2. GuidInv => GuidDecides
  BY DEF GuidInv, GuidDecides
<1>. QED
  BY NextGuidInv, <1>1, <1>2, PTL DEF Spec
=============================================================================
