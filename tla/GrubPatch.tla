------------------------------- MODULE GrubPatch -------------------------------
(***************************************************************************)
(* The EFI loader rewrites the boot menu of an image so that the kernel    *)
(* gets the arguments of the live system and the initramfs the premount    *)
(* archive (try_patch_candidate, patch_grub_cfg).  The new menu is written *)
(* into one block whose size is computed beforehand from counts of lines.  *)
(*                                                                         *)
(* A line is where it lies in the file, what it begins with, its words,    *)
(* and how many bytes of it are locators of another loader (findiso=,      *)
(* root=live:, ...).  Numbers of bytes are the program's.                  *)
(***************************************************************************)
EXTENDS Integers, Sequences, FiniteSets, SequencesExt

CONSTANTS
  BootKinds,     \* subset of AllKinds: what the image was found to be
  Locations,     \* where the image may lie
  Menus,         \* sequences of lines
  ArchiveNames   \* lengths the archive's name may have

AllKinds == {"Casper", "DebianLive", "FedoraLive", "ArchIso", "Alpine", "WindowsPE", "Unknown"}

Keywords == {"linux", "initrd", "options", "blscfg", "menuentry", "configfile", "other"}

\* What a line's words are to the patch: the kernel or any argument, a locator,
\* the separator "---", the injected arguments and the archive.
Words == {"word", "locator", "---", "ours", "eol", "archive"}

Line == [start : Nat, end : Nat, key : Keywords, words : Seq(Words), drop : Nat]

\* Digits and name lengths; the path without its leading slash.
Location == [mbr : BOOLEAN, path : Nat \ {0}, num : 1..10, offset : 1..20, size : 1..20]

ASSUME GrubAssumption ==
  /\ BootKinds \subseteq AllKinds
  /\ Locations \subseteq Location
  /\ ArchiveNames \subseteq 0..16
  /\ Menus \subseteq Seq(Line)
  /\ \A m \in Menus : \A i \in DOMAIN m :
       /\ m[i].start = IF i = 1 THEN 0 ELSE m[i - 1].end
       /\ m[i].start < m[i].end
       /\ m[i].drop <= m[i].end - m[i].start
       /\ m[i].end <= m[Len(m)].end
       /\ m[i].key = "linux" => m[i].words = <<>> \/ Head(m[i].words) = "word"   \* the kernel

VARIABLES
  menu, kind, loc, name,  \* the menu, the kind of image, where it lies, the archive's name
  stage,
  k,                      \* lines copied
  dst, cap,               \* bytes written, and size of the block
  out                     \* the lines written

patchVars == <<menu, kind, loc, name, stage, k, dst, cap, out>>

-----------------------------------------------------------------------------
(* linux_extra: the arguments, or nothing at all when they exceed 512 bytes. *)

\* Mutant: as long as the buffer for the path.
ShortBuffer == 256

Buffer == 512

\* " choosable.part_guid=" and the PARTUUID, which an MBR writes in 11 bytes.
Partuuid == IF loc.mbr THEN 11 ELSE 36

KindArgs ==
  CASE kind = "Casper"     -> 79
    [] kind = "DebianLive" -> 84
    [] kind = "FedoraLive" -> 129
    [] kind = "ArchIso"    -> 37 + Partuuid + 51
    [] kind = "Alpine"     -> 21
    [] kind = "WindowsPE"  -> 0
    [] kind = "Unknown"    -> 48

AfterGuid == KindArgs + 21 + Partuuid
AfterNum == AfterGuid + 20 + loc.num
AfterOffset == AfterNum + 22 + loc.offset
AfterPath == AfterOffset + 20 + loc.path

\* Decimal numbers are given the room of the longest one.
ParamsFit == /\ AfterGuid + 20 + 10 <= Buffer
             /\ AfterNum + 22 + 20 <= Buffer
             /\ AfterPath <= Buffer
             /\ AfterPath + 20 + 20 <= Buffer

\* A buffer that is too small leaves no arguments (unwrap_or).
linux_extra == IF ParamsFit THEN AfterPath + 20 + loc.size ELSE 0

\* linux_eol_extra with the path behind it.
eol_extra == CASE kind = "Casper" -> 19 + 1 + loc.path
               [] kind = "DebianLive" -> 9 + 1 + loc.path
               [] OTHER -> 0

NameLength == IF name = 0 THEN 13 ELSE name   \* PREMOUNT.CPIO
initrd_extra == 2 + NameLength
dedup == 1 + NameLength

-----------------------------------------------------------------------------
(* The menu as a whole. *)

LenOf(line) == line.end - line.start
Size(m) == IF m = <<>> THEN 0 ELSE m[Len(m)].end

\* The lines among the first n that begin with a keyword.
With(key, n) == {i \in 1..n : menu[i].key = key}
Count(key, n) == Cardinality(With(key, n))

\* The program looks for these words anywhere in the text.
Has(key) == With(key, Len(menu)) # {}

\* A menu that only names another one gets a line put in front of it.
Stub == Has("configfile") /\ ~\E key \in {"linux", "menuentry", "blscfg", "options"} : Has(key)
Relevant == Stub \/ \E key \in {"linux", "menuentry", "blscfg", "options"} : Has(key)
Prefix == IF Stub THEN 15 ELSE 0             \* "set root=(cd0)\n"

BlsLine == 27 + linux_extra + 2              \* set kernelopts="$kernelopts ..."

\* What the first n lines may add.  (The program counts the word blscfg wherever
\* it stands; elsewhere than at the head of a line it only makes more room.)
Extra(n) == Count("linux", n) * (linux_extra + eol_extra)
              + Count("initrd", n) * initrd_extra
              + Count("blscfg", n) * BlsLine
              + Count("options", n) * linux_extra

-----------------------------------------------------------------------------
(***************************************************************************)
(* The patch.  A line of the output: what it begins with, its words, and   *)
(* the line of the menu it was made from, 0 if none.                       *)
(***************************************************************************)
OutLine(key, words, of) == [key |-> key, words |-> words, of |-> of]

PatchInit ==
  /\ menu \in Menus /\ kind \in BootKinds /\ loc \in Locations /\ name \in ArchiveNames
  /\ stage = "read"
  /\ k = 0 /\ dst = 0 /\ cap = 0 /\ out = <<>>

Input == UNCHANGED <<menu, kind, loc, name>>

\* Nothing in it can be patched; a stub of Fedora is left to its real menu.
SkipMenu ==
  /\ stage = "read" /\ Input
  /\ ~Relevant \/ (kind = "FedoraLive" /\ Stub)
  /\ stage' = "unchanged"
  /\ UNCHANGED <<k, dst, cap, out>>

\* Mutant: the lines of systemd-boot are forgotten in the count.
AllocateWithoutOptions ==
  /\ stage = "read" /\ Input
  /\ Relevant /\ ~(kind = "FedoraLive" /\ Stub)
  /\ cap' = Size(menu) + Extra(Len(menu)) - Count("options", Len(menu)) * linux_extra + 256
  /\ stage' = "prefix"
  /\ UNCHANGED <<k, dst, out>>

Allocate ==
  /\ stage = "read" /\ Input
  /\ Relevant /\ ~(kind = "FedoraLive" /\ Stub)
  /\ cap' = Size(menu) + Extra(Len(menu)) + 256
  /\ stage' = "prefix"
  /\ UNCHANGED <<k, dst, out>>

AllocateFails ==
  /\ stage = "read" /\ Input
  /\ Relevant
  /\ stage' = "unchanged"
  /\ UNCHANGED <<k, dst, cap, out>>

SetPrefix ==
  /\ stage = "prefix" /\ Input
  /\ dst' = IF Prefix <= cap THEN Prefix ELSE cap
  /\ out' = IF Prefix > 0 THEN <<OutLine("other", <<"word">>, 0)>> ELSE <<>>
  /\ stage' = "copy"
  /\ UNCHANGED <<k, cap>>

\* Writing up to a place behind the block is a panic (slice bounds).
WriteTo(end, next) == /\ dst' = end
                      /\ stage' = IF end <= cap THEN next ELSE "overrun"
                      /\ UNCHANGED cap

CopyLine ==
  /\ stage = "copy" /\ k < Len(menu) /\ Input
  /\ k' = k + 1
  /\ out' = Append(out, OutLine(menu[k + 1].key, menu[k + 1].words, k + 1))
  /\ WriteTo(dst + LenOf(menu[k + 1]), "line")

\* The line just copied, and what becomes of it.
AtLine(key) == stage = "line" /\ menu[k].key = key /\ Input /\ UNCHANGED k
words == menu[k].words
Becomes(ws) == out' = Append(Front(out), OutLine(menu[k].key, ws, k))

\* The elements of s that are in S, in their order.
Only(s, S) == FlattenSeq([i \in DOMAIN s |-> IF s[i] \in S THEN <<s[i]>> ELSE <<>>])

WithoutLocators(ws) == Only(ws, Words \ {"locator"})

\* line.windows(0): the length is used before it is found to be zero.
WindowOfZero ==
  /\ AtLine("linux") /\ linux_extra = 0
  /\ stage' = "panic"
  /\ UNCHANGED <<dst, cap, out>>

Removes == eol_extra > 0 \/ kind \in {"FedoraLive", "ArchIso"}
Kept(ws) == IF Removes THEN WithoutLocators(ws) ELSE ws
Dropped == IF Removes THEN menu[k].drop ELSE 0

\* Mutant: the arguments go to the end of the line.
InsertAtEnd(ws, w) == Append(ws, w)

\* find_second_arg_end: the first argument of linux is the kernel.
InsertAfterKernel(ws, w) == IF ws = <<>> THEN <<w>> ELSE InsertAt(ws, 2, w)

PatchLinux ==
  /\ AtLine("linux") /\ linux_extra > 0
  /\ ~Contains(words, "ours")
  /\ Becomes(InsertAfterKernel(Kept(words), "ours"))
  /\ WriteTo(dst - Dropped + linux_extra, IF eol_extra > 0 THEN "eol" ELSE "copy")

\* The path of the image, right behind the arguments.
InjectEol ==
  /\ stage = "eol" /\ Input
  /\ LET ws == Last(out).words
         at == CHOOSE i \in DOMAIN ws : ws[i] = "ours"
     IN  Becomes(InsertAt(ws, at + 1, "eol"))
  /\ WriteTo(dst + eol_extra, "copy")
  /\ UNCHANGED k

\* A line that sets kernelopts, before the one that reads the entries.
PatchBls ==
  /\ AtLine("blscfg") /\ linux_extra > 0
  /\ out' = Front(out) \o <<OutLine("other", <<"ours">>, 0), Last(out)>>
  /\ WriteTo(dst + BlsLine, "copy")

\* linux_extra without its blank, which is put back if the line needs one.
PatchOptions == \E blank \in {0, 1} :
  /\ AtLine("options")
  /\ Becomes(IF linux_extra > 0 THEN Append(WithoutLocators(words), "ours")
                                ELSE WithoutLocators(words))
  /\ WriteTo(dst - menu[k].drop
               + (IF linux_extra > 0 THEN linux_extra - 1 + blank ELSE 0), "copy")

\* A line shorter than the archive's name cannot hold it, and is left alone.
TakesArchive == ~Contains(words, "archive") /\ dedup <= LenOf(menu[k])

PatchInitrd ==
  /\ AtLine("initrd") /\ TakesArchive
  /\ Becomes(Append(words, "archive"))
  /\ WriteTo(dst + initrd_extra, "copy")

LeaveLine ==
  /\ \/ AtLine("linux") /\ linux_extra > 0 /\ Contains(words, "ours")
     \/ AtLine("blscfg") /\ linux_extra = 0
     \/ AtLine("initrd") /\ ~TakesArchive
     \/ \E key \in {"menuentry", "configfile", "other"} : AtLine(key)
  /\ stage' = "copy"
  /\ UNCHANGED <<dst, cap, out>>

\* The caller drops an output that equals the menu.
Changed == \/ Len(out) # Len(menu)
           \/ \E i \in DOMAIN out : out[i].words # menu[i].words

Finish ==
  /\ stage = "copy" /\ k = Len(menu) /\ Input
  /\ stage' = IF Changed THEN "done" ELSE "unchanged"
  /\ UNCHANGED <<k, dst, cap, out>>

PatchNext == \/ SkipMenu \/ Allocate \/ AllocateFails \/ SetPrefix \/ CopyLine
             \/ WindowOfZero \/ PatchLinux \/ InjectEol \/ PatchBls \/ PatchOptions
             \/ PatchInitrd \/ LeaveLine \/ Finish

PatchSpec == PatchInit /\ [][PatchNext]_patchVars

-----------------------------------------------------------------------------
(* Properties. *)

\* The size computed from counts of lines is enough: no write goes behind the
\* block, wherever the lines are and whatever is injected into them.
Fits == stage # "overrun" /\ (stage \notin {"read", "unchanged"} => dst <= cap)

\* The loader panics only when the path of the image is so long that its
\* arguments exceed the buffer (linux_extra is nothing then).
LongPathOnly == stage = "panic" => loc.path > 194

Injected == {"ours", "eol", "archive"}
Original(ws) == Only(ws, Words \ (Injected \cup {"locator"}))

Places(ws, w) == {i \in DOMAIN ws : ws[i] = w}

\* A kernel gets the arguments once, before any "---", with the path behind
\* them and no other loader's locator beside it, unless it had them before.
KernelReady(line) ==
  \/ Contains(menu[line.of].words, "ours")
  \/ /\ Cardinality(Places(line.words, "ours")) = 1
     /\ \A i \in Places(line.words, "ours") :
          /\ eol_extra > 0 => i < Len(line.words) /\ line.words[i + 1] = "eol"
          /\ \A j \in Places(line.words, "---") : i < j
     /\ Removes => ~Contains(line.words, "locator")

\* An initramfs gets the archive once, unless it had it before or its line is
\* shorter than the name.
ArchiveReady(line) ==
  \/ Cardinality(Places(line.words, "archive")) = 1
  \/ Contains(menu[line.of].words, "archive") /\ line.words = menu[line.of].words
  \/ LenOf(menu[line.of]) < dedup

\* The finished menu has the lines of the original one in their order, with all
\* their words but locators, and each of its entries is ready to boot, unless the
\* arguments did not fit the buffer.
EntriesReady == stage = "done" =>
  /\ [i \in 1..Len(menu) |-> i] = Only([i \in DOMAIN out |-> out[i].of], Nat \ {0})
  /\ \A i \in DOMAIN out :
       LET line == out[i]
       IN  /\ line.of # 0 => Original(line.words) = Original(menu[line.of].words)
           /\ line.key = "linux" => KernelReady(line)
           /\ line.key = "initrd" => ArchiveReady(line)
           /\ line.key = "options" /\ linux_extra > 0 =>
                Last(line.words) = "ours" /\ ~Contains(line.words, "locator")
           /\ line.key = "blscfg" /\ linux_extra > 0 => i > 1 /\ out[i - 1].words = <<"ours">>
=============================================================================
