------------------------------ MODULE FileScan ------------------------------
(***************************************************************************)
(* One file under scanFile: from the first four bytes to the finding, with *)
(* every pass of the engine over the container: Detect, Check, and the     *)
(* trial Repair (a search for CMS blobs, the repair, another Check).       *)
(*                                                                         *)
(* What is in focus is the arithmetic of offsets, so a container is given  *)
(* by the numbers read from it and by which of its hash slots are wrong.   *)
(* A slot may lie anywhere: one that lies in a page or over another slot   *)
(* unsettles those when it is written.  A file is no longer followed once  *)
(* a repair has written over the numbers themselves.  Sizes of headers are *)
(* parameters.                                                             *)
(***************************************************************************)
EXTENDS Integers, Sequences

CONSTANTS
    Containers,     \* the files
    MaxFileSize,    \* maxMachOFileSize
    MaxInMemory,    \* maxMachOInMemorySize
    Word,           \* the values of a uint64 are 0..Word-1
    MagicSize,      \* what scanFile peeks at
    MinHeader,      \* machHeaderSize32
    LoadCommand, LinkeditData, FatHeader, SuperBlob, BlobIndex, BlobHeader, CDHeader,
    MaxArchs,       \* maxNFatArch
    MaxBlobs,       \* maxSuperBlobCount
    HashSizes,      \* the size of a hash for each supported type
    PageSizes       \* 1 << pageSizeLog2 for 0 < pageSizeLog2 <= maxPageSizeLog2

(* A blob of a signature: its index entry, and what is read of it.  The    *)
(* fields from hashOffset on are those of a CodeDirectory.                 *)
BlobType == [slot : {"signature", "other"}, off : Nat,
             magic : {"directory", "wrapper", "other"}, length : Nat,
             hashOffset : Nat, nSpecialSlots : Nat, nCodeSlots : Nat, codeLimit : Nat,
             hashType : STRING, hashSize : Nat, pageSize : Nat]

(* A load command: where it starts, from the start of its slice, and what  *)
(* it says its size is.                                                    *)
CommandType == [signature : BOOLEAN, at : Nat, size : Nat]

(* A slice: its fat_arch entry, its Mach header (0 without a known magic), *)
(* its load commands and the SuperBlob LC_CODE_SIGNATURE leads to.         *)
SliceType == [off : 0..Word-1, len : 0..Word-1, header : Nat, sizeofcmds : Nat,
              commands : Seq(CommandType), sigOff : Nat, sigSize : Nat,
              magic : BOOLEAN, count : Nat, blobs : Seq(BlobType)]

(* A file; wrong are the slots <<slice, blob, number>> whose hash is not   *)
(* that of their page.                                                     *)
ContainerType == [size : 0..Word-1, format : {"thin", "fat", "other"},
                  archSize : Nat, nfat : Nat, slices : Seq(SliceType),
                  wrong : SUBSET (Nat \X Nat \X Nat)]

ASSUME ContainersAssumption ==
    \A c \in Containers :
        /\ c \in ContainerType
        /\ c.format = "thin" => Len(c.slices) = 1
        /\ c.format = "fat" /\ c.nfat <= MaxArchs => Len(c.slices) = c.nfat
        /\ \A s \in 1..Len(c.slices) :
              /\ c.slices[s].header \in {0} \cup {h \in Nat : h >= MinHeader}
              /\ \A j \in 1..Len(c.slices[s].commands) :
                    c.slices[s].commands[j].at =
                        IF j = 1 THEN c.slices[s].header
                        ELSE c.slices[s].commands[j - 1].at + c.slices[s].commands[j - 1].size
              /\ c.slices[s].count <= MaxBlobs =>
                    Len(c.slices[s].blobs) = c.slices[s].count
ASSUME SizesAssumption ==
    /\ {MaxFileSize, MaxInMemory, Word, MagicSize, MinHeader, LoadCommand, LinkeditData,
        FatHeader, SuperBlob, BlobIndex, BlobHeader, CDHeader, MaxArchs, MaxBlobs}
       \subseteq Nat \ {0}
    /\ MagicSize <= MinHeader /\ FatHeader <= MinHeader
    /\ PageSizes \subseteq Nat \ {0}
    /\ \A t \in DOMAIN HashSizes : HashSizes[t] \in Nat \ {0}

VARIABLES
    container,
    task,       \* "scan": scanFile, "plan": planFileRepair
    pass,       \* which pass of the engine is under way
    pc,
    si,         \* the slice it is at
    lc,         \* the offset of the load command it is at
    n,          \* the load command or the blob it is at
    i,          \* the code slot it is at
    kind,       \* Detect's result so far
    hit,        \* the result of walk so far
    suspect,    \* fixupSlice's unverifiable
    anyCD,      \* fixupSlice's anyCodeDirectory
    refused,    \* ErrCMSRepair
    wrong,      \* the slots that are wrong in the bytes in memory
    reach,      \* history: how far into the file a read or write went
    verdict

vars == <<container, task, pass, pc, si, lc, n, i, kind, hit, suspect, anyCD, refused,
          wrong, reach, verdict>>
inputVars == <<container, task>>
directoryVars == <<suspect, anyCD>>
resultVars == <<kind, refused, wrong>>

Furthest(a, b) == IF a >= b THEN a ELSE b

(* uint64 addition.                                                        *)
Plus(a, b) == IF a + b < Word THEN a + b ELSE (a + b) - Word

size == container.size
Slice(s) == container.slices[s]
Blob(s, b) == Slice(s).blobs[b]

-----------------------------------------------------------------------------
(* Where things are.                                                       *)

Base(s) == IF container.format = "thin" THEN 0 ELSE Slice(s).off

SliceEnd(s) == IF container.format = "thin" THEN size
               ELSE Plus(Slice(s).off, Slice(s).len)

ArchArrayEnd == FatHeader + container.nfat * container.archSize

CommandsEnd(s) == Base(s) + Slice(s).header + Slice(s).sizeofcmds

SigStart(s) == Base(s) + Slice(s).sigOff
SigEnd(s) == SigStart(s) + Slice(s).sigSize

EntryEnd(s, b) == SigStart(s) + SuperBlob + b * BlobIndex

BlobStart(s, b) == SigStart(s) + Blob(s, b).off

SlotStart(s, b, j) ==
    BlobStart(s, b) + Blob(s, b).hashOffset + j * Blob(s, b).hashSize

PageStart(s, b, j) == Base(s) + j * Blob(s, b).pageSize

(* The last page ends at codeLimit.                                        *)
PageEnd(s, b, j) ==
    IF Blob(s, b).codeLimit <= (j + 1) * Blob(s, b).pageSize
    THEN Base(s) + Blob(s, b).codeLimit
    ELSE Base(s) + (j + 1) * Blob(s, b).pageSize

-----------------------------------------------------------------------------
(* What the engine checks before it reads on.                              *)

(* How many slices walkContainer looks at.                                 *)
Visits == IF size < MinHeader \/ container.format = "other" THEN 0
          ELSE IF container.format = "thin" THEN 1
          ELSE IF container.nfat > MaxArchs \/ ArchArrayEnd > size THEN 0
          ELSE container.nfat

(* Mutant: the end of the slice is compared, which may have wrapped.       *)
EndWithinFile(s) ==
    /\ Slice(s).len # 0
    /\ Slice(s).off >= ArchArrayEnd /\ Slice(s).off < size
    /\ Plus(Slice(s).off, Slice(s).len) <= size

(* Within the file, in a form that cannot wrap.                            *)
ValidSliceBounds(s) ==
    /\ Slice(s).len # 0
    /\ Slice(s).off >= ArchArrayEnd /\ Slice(s).off < size
    /\ Slice(s).len <= size - Slice(s).off

HeaderFits(s) == Base(s) + MinHeader <= size

CommandsFit(s) ==
    /\ Slice(s).header # 0
    /\ Base(s) + Slice(s).header <= size
    /\ CommandsEnd(s) <= size

SigFits(s) == Slice(s).sigSize >= SuperBlob /\ SigEnd(s) <= size

(* The SuperBlob is one whose entries can be looked at.                    *)
SuperBlobParses(s) ==
    /\ SigFits(s)
    /\ Slice(s).magic
    /\ Slice(s).count <= MaxBlobs

EntryFits(s, b) == EntryEnd(s, b) <= SigEnd(s)

BlobFits(s, b) ==
    /\ Blob(s, b).off <= Slice(s).sigSize
    /\ BlobStart(s, b) + BlobHeader <= SigEnd(s)

(* A CodeDirectory whose slots can be looked at.                           *)
DirectoryHeaderFits(s, b) == BlobStart(s, b) + CDHeader <= SigEnd(s)

DirectoryFits(s, b) ==
    LET d == Blob(s, b)
    IN /\ DirectoryHeaderFits(s, b)
       /\ d.length >= CDHeader
       /\ d.length <= Slice(s).sigSize
       /\ BlobStart(s, b) + d.length <= SigEnd(s)

SlotsFit(s, b) ==
    LET d == Blob(s, b)
    IN /\ d.hashType \in DOMAIN HashSizes
       /\ d.hashSize = HashSizes[d.hashType]
       /\ d.pageSize \in PageSizes
       /\ d.nSpecialSlots * d.hashSize <= d.hashOffset
       /\ d.hashOffset <= d.length
       /\ SlotStart(s, b, d.nCodeSlots) <= BlobStart(s, b) + d.length
       /\ SlotStart(s, b, d.nCodeSlots) <= size
       /\ Base(s) + d.codeLimit <= SliceEnd(s)

PageFits(s, b, j) ==
    PageEnd(s, b, j) <= size /\ PageStart(s, b, j) <= PageEnd(s, b, j)

Fat == container.format = "fat"

Visited(s) == Fat => ValidSliceBounds(s)

(* What a signature is, said without the passes: the slices of the file,   *)
(* and those with a well-formed LC_CODE_SIGNATURE before anything else     *)
(* that is not well formed.                                                *)
InFile == {s \in 1..Visits : Visited(s)}

Signed(s) ==
    LET cmds == Slice(s).commands
    IN /\ HeaderFits(s) /\ CommandsFit(s)
       /\ \E j \in 1..Len(cmds) :
             /\ cmds[j].signature /\ cmds[j].size >= LinkeditData
             /\ \A e \in 1..j :
                   /\ cmds[e].size >= LoadCommand
                   /\ Base(s) + cmds[e].at + cmds[e].size <= CommandsEnd(s)
                   /\ e < j => ~cmds[e].signature

Directories(s) ==
    {b \in 1..Slice(s).count : BlobFits(s, b) /\ Blob(s, b).magic = "directory"}

Verifiable(s, b) == DirectoryFits(s, b) /\ SlotsFit(s, b)

-----------------------------------------------------------------------------
(* What a slot lies over.                                                  *)

(* The bytes from a to b, and those from c to d, if any.                   *)
Meet(a, b, c, d) == c < d /\ a < d /\ c < b

(* The slots of a slice that are compared with their pages, and of all of  *)
(* them.                                                                   *)
SlotsOf(s) ==
    UNION {{<<s, b, j>> : j \in {k \in 0..Blob(s, b).nCodeSlots - 1 : PageFits(s, b, k)}} :
              b \in {c \in Directories(s) : EntryFits(s, c) /\ Verifiable(s, c)}}

Compared == UNION {SlotsOf(s) : s \in {t \in InFile : Signed(t) /\ SuperBlobParses(t)}}

(* Writing slot x changes the bytes of y's page, or of another slot y.     *)
Disturbs(x, y) ==
    LET from == SlotStart(x[1], x[2], x[3])
        to == SlotStart(x[1], x[2], x[3] + 1)
    IN \/ Meet(from, to, PageStart(y[1], y[2], y[3]), PageEnd(y[1], y[2], y[3]))
       \/ /\ y # x
          /\ Meet(from, to, SlotStart(y[1], y[2], y[3]), SlotStart(y[1], y[2], y[3] + 1))

(* The bytes from a to b hold some of the numbers that are read.           *)
OnHeader(a, b) ==
    \/ Fat /\ Meet(a, b, 0, ArchArrayEnd)
    \/ \E s \in InFile :
          \/ Meet(a, b, Base(s), Furthest(Base(s) + MinHeader, CommandsEnd(s)))
          \/ /\ Signed(s) /\ SigFits(s)
             /\ Meet(a, b, SigStart(s), SigStart(s) + SuperBlob)
          \/ /\ Signed(s) /\ SuperBlobParses(s)
             /\ \/ Meet(a, b, SigStart(s), EntryEnd(s, Slice(s).count))
                \/ \E c \in 1..Slice(s).count :
                      /\ EntryFits(s, c) /\ BlobFits(s, c)
                      /\ Meet(a, b, BlobStart(s, c), BlobStart(s, c) + BlobHeader)
                \/ \E c \in Directories(s) :
                      Meet(a, b, BlobStart(s, c), BlobStart(s, c) + CDHeader)

-----------------------------------------------------------------------------
(* The engine.  A pass walks the slices; of each it looks for a signature  *)
(* among the load commands, and then, as the pass has it, for a CMS blob   *)
(* or through the slots of every CodeDirectory.                            *)

Checking == pass \in {"check", "recheck"}

(* The bytes before e are read.                                            *)
Touch(e) == reach' = Furthest(reach, e)

Command == Slice(si).commands[n]
Directory == Blob(si, n)

ArchEnd(s) == FatHeader + s * container.archSize

Init ==
    /\ container \in Containers
    /\ task \in {"scan", "plan"}
    /\ pass = "detect"
    /\ pc = "open"
    /\ si = 1 /\ lc = 0 /\ n = 1 /\ i = 0
    /\ kind = "none"
    /\ hit = FALSE /\ suspect = FALSE /\ anyCD = FALSE /\ refused = FALSE
    /\ wrong = container.wrong
    /\ reach = 0
    /\ verdict = "none"

Report(v) == verdict' = v /\ pc' = "done"

Begin(p) == pass' = p /\ pc' = "walk"

(* scanFile: not a Mach-O, too large to be looked at, or looked at.  A     *)
(* file that cannot be mapped is read into memory.                         *)
NotMachO ==
    /\ pc = "open" /\ task = "scan"
    /\ size < MagicSize \/ container.format = "other"
    /\ Report("healthy")
    /\ UNCHANGED <<inputVars, pass, si, lc, n, i, hit, directoryVars, resultVars, reach>>

TooLarge(mapped) == size > MaxFileSize \/ (~mapped /\ size > MaxInMemory)

Load ==
    /\ pc = "open" /\ task = "scan"
    /\ size >= MagicSize /\ container.format # "other"
    /\ \E mapped \in BOOLEAN :
          \/ TooLarge(mapped) /\ Report("oversized") /\ UNCHANGED pass
          \/ ~TooLarge(mapped) /\ Begin("detect") /\ UNCHANGED verdict
    /\ UNCHANGED <<inputVars, si, lc, n, i, hit, directoryVars, resultVars, reach>>

(* planFileRepair reads any file, and repairs what it has read.            *)
Plan ==
    /\ pc = "open" /\ task = "plan"
    /\ Begin("prescan")
    /\ UNCHANGED <<inputVars, si, lc, n, i, hit, directoryVars, resultVars, reach, verdict>>

WalkContainer ==
    /\ pc = "walk"
    /\ pc' = "slice"
    /\ si' = 1
    /\ hit' = FALSE
    /\ Touch(IF size >= MinHeader THEN FatHeader ELSE 0)
    /\ UNCHANGED <<inputVars, pass, lc, n, i, directoryVars, resultVars, verdict>>

NextSlice == si' = si + 1 /\ pc' = "slice"

(* A slice out of bounds; or one behind a CMS signature in the search for  *)
(* one.                                                                    *)
SkipSlice ==
    /\ pc = "slice"
    /\ si <= Visits
    /\ ~Visited(si) \/ refused
    /\ Touch(IF Fat THEN ArchEnd(si) ELSE 0)
    /\ NextSlice
    /\ UNCHANGED <<inputVars, pass, lc, n, i, hit, directoryVars, resultVars, verdict>>

VisitSlice ==
    /\ pc = "slice"
    /\ si <= Visits
    /\ Visited(si) /\ ~refused
    /\ pc' = "header"
    /\ Touch(IF Fat THEN ArchEnd(si) ELSE 0)
    /\ UNCHANGED <<inputVars, pass, si, lc, n, i, hit, directoryVars, resultVars, verdict>>

-----------------------------------------------------------------------------
(* findSignature.                                                          *)

ReadHeader ==
    /\ pc = "header"
    /\ Touch(IF HeaderFits(si) THEN Base(si) + MinHeader ELSE 0)
    /\ IF HeaderFits(si) /\ CommandsFit(si)
       THEN /\ pc' = "command"
            /\ lc' = Base(si) + Slice(si).header
            /\ n' = 1
            /\ UNCHANGED si
       ELSE NextSlice /\ UNCHANGED <<lc, n>>
    /\ UNCHANGED <<inputVars, pass, i, hit, directoryVars, resultVars, verdict>>

CommandStarts ==
    n <= Len(Slice(si).commands) /\ lc + LoadCommand <= CommandsEnd(si)

CommandFits ==
    /\ CommandStarts
    /\ Command.size >= LoadCommand
    /\ lc + Command.size <= CommandsEnd(si)
    /\ Command.signature => Command.size >= LinkeditData

NoSignature ==
    /\ pc = "command"
    /\ ~CommandFits
    /\ Touch(IF CommandStarts THEN lc + LoadCommand ELSE 0)
    /\ NextSlice
    /\ UNCHANGED <<inputVars, pass, lc, n, i, hit, directoryVars, resultVars, verdict>>

OtherCommand ==
    /\ pc = "command"
    /\ CommandFits
    /\ ~Command.signature
    /\ Touch(lc + LoadCommand)
    /\ lc' = lc + Command.size
    /\ n' = n + 1
    /\ UNCHANGED <<inputVars, pass, pc, si, i, hit, directoryVars, resultVars, verdict>>

CodeSignature ==
    /\ pc = "command"
    /\ CommandFits
    /\ Command.signature
    /\ Touch(lc + LinkeditData)
    /\ pc' = "super"
    /\ UNCHANGED <<inputVars, pass, si, lc, n, i, hit, directoryVars, resultVars, verdict>>

-----------------------------------------------------------------------------
(* What each pass does with a signature.                                   *)

(* Mutant: the last kind found, not the strongest.                         *)
Latest(k) == k

Strongest(k) == IF kind = "cms" THEN kind ELSE k

(* A SuperBlob that does not parse: ad-hoc to Detect, stale to Check, and  *)
(* nothing to Repair.                                                      *)
Unparsed ==
    /\ pc = "super"
    /\ ~SuperBlobParses(si)
    /\ Touch(IF SigFits(si) THEN SigStart(si) + SuperBlob ELSE 0)
    /\ kind' = IF pass = "detect" THEN Strongest("adhoc") ELSE kind
    /\ hit' = (hit \/ Checking)
    /\ NextSlice
    /\ UNCHANGED <<inputVars, pass, lc, n, i, directoryVars, refused, wrong, verdict>>

Parsed ==
    /\ pc = "super"
    /\ SuperBlobParses(si)
    /\ Touch(SigStart(si) + SuperBlob)
    /\ kind' = IF pass = "detect" THEN Strongest("adhoc") ELSE kind
    /\ pc' = IF Checking THEN "blob" ELSE "cms"
    /\ n' = 1
    /\ suspect' = FALSE
    /\ anyCD' = FALSE
    /\ UNCHANGED <<inputVars, pass, si, lc, i, hit, refused, wrong, verdict>>

(* hasNonEmptyCMS: an entry that carries one, and the way on.              *)
CMSAt(s, b) ==
    /\ EntryFits(s, b)
    /\ Blob(s, b).slot = "signature"
    /\ BlobFits(s, b)
    /\ Blob(s, b).magic = "wrapper"
    /\ Blob(s, b).length > BlobHeader

(* How far an entry and the header of its blob are read.                   *)
EntryRead(s, b) ==
    IF ~EntryFits(s, b) THEN 0
    ELSE IF ~BlobFits(s, b) THEN EntryEnd(s, b)
    ELSE Furthest(EntryEnd(s, b), BlobStart(s, b) + BlobHeader)

MoreEntries == n <= Slice(si).count

(* Mutant: the slices are not searched before the first is repaired.       *)
RefusesInHand == pass = "repair"

Refuses == pass # "detect"

CMSFound ==
    /\ pc = "cms"
    /\ MoreEntries
    /\ CMSAt(si, n)
    /\ Touch(EntryRead(si, n))
    /\ kind' = IF pass = "detect" THEN "cms" ELSE kind
    /\ refused' = Refuses
    /\ si' = IF pass = "repair" THEN Visits + 1 ELSE si + 1
    /\ pc' = "slice"
    /\ UNCHANGED <<inputVars, pass, lc, n, i, hit, directoryVars, wrong, verdict>>

NotCMS ==
    /\ pc = "cms"
    /\ MoreEntries
    /\ EntryFits(si, n)
    /\ ~CMSAt(si, n)
    /\ Touch(EntryRead(si, n))
    /\ n' = n + 1
    /\ UNCHANGED <<inputVars, pass, pc, si, lc, i, hit, directoryVars, resultVars, verdict>>

NoCMS ==
    /\ pc = "cms"
    /\ MoreEntries => ~EntryFits(si, n)
    /\ IF pass = "repair"
       THEN /\ pc' = "blob"
            /\ n' = 1
            /\ UNCHANGED si
       ELSE NextSlice /\ UNCHANGED n
    /\ UNCHANGED <<inputVars, pass, lc, i, hit, directoryVars, resultVars, reach, verdict>>

-----------------------------------------------------------------------------
(* fixupSlice from its loop over the blobs on.                             *)

(* The index ends before its entries do.                                   *)
BlobMissing ==
    /\ pc = "blob"
    /\ MoreEntries
    /\ ~EntryFits(si, n)
    /\ suspect' = TRUE
    /\ n' = Slice(si).count + 1
    /\ UNCHANGED <<inputVars, pass, pc, si, lc, i, hit, anyCD, resultVars, reach, verdict>>

OtherBlob ==
    /\ pc = "blob"
    /\ MoreEntries
    /\ EntryFits(si, n)
    /\ BlobFits(si, n) => Directory.magic # "directory"
    /\ suspect' = (suspect \/ ~BlobFits(si, n))
    /\ Touch(EntryRead(si, n))
    /\ n' = n + 1
    /\ UNCHANGED <<inputVars, pass, pc, si, lc, i, hit, anyCD, resultVars, verdict>>

CodeDirectory ==
    /\ pc = "blob"
    /\ MoreEntries
    /\ EntryFits(si, n)
    /\ BlobFits(si, n)
    /\ Directory.magic = "directory"
    /\ anyCD' = TRUE
    /\ Touch(Furthest(EntryRead(si, n),
                      IF DirectoryHeaderFits(si, n) THEN BlobStart(si, n) + CDHeader ELSE 0))
    /\ IF Verifiable(si, n)
       THEN /\ pc' = "slot"
            /\ i' = 0
            /\ UNCHANGED <<n, suspect>>
       ELSE /\ suspect' = TRUE
            /\ n' = n + 1
            /\ UNCHANGED <<pc, i>>
    /\ UNCHANGED <<inputVars, pass, si, lc, hit, resultVars, verdict>>

(* Mutant: the slot after the last one is taken too.                       *)
OneMore == i <= Directory.nCodeSlots

MoreSlots == i < Directory.nCodeSlots

BadPage ==
    /\ pc = "slot"
    /\ MoreSlots
    /\ ~PageFits(si, n, i)
    /\ suspect' = TRUE
    /\ i' = i + 1
    /\ UNCHANGED <<inputVars, pass, pc, si, lc, n, hit, anyCD, resultVars, reach, verdict>>

Current == <<si, n, i>>

Rewrites == pass = "repair" /\ Current \in wrong

Overlays == Rewrites /\ OnHeader(SlotStart(si, n, i), SlotStart(si, n, i + 1))

(* What the slot is written over may be wrong from then on, or right.      *)
WriteSlot ==
    LET D == {y \in Compared : Disturbs(Current, y)}
    IN \E U \in SUBSET D : wrong' = (wrong \ ({Current} \cup D)) \cup U

HashPage ==
    /\ pc = "slot"
    /\ MoreSlots
    /\ PageFits(si, n, i)
    /\ ~Overlays
    /\ Touch(Furthest(PageEnd(si, n, i), SlotStart(si, n, i + 1)))
    /\ hit' = (hit \/ Current \in wrong)
    /\ IF Rewrites THEN WriteSlot ELSE UNCHANGED wrong
    /\ i' = i + 1
    /\ UNCHANGED <<inputVars, pass, pc, si, lc, n, directoryVars, kind, refused, verdict>>

(* The slot lies over what is read: the file is not followed further.      *)
Overlaid ==
    /\ pc = "slot"
    /\ MoreSlots
    /\ PageFits(si, n, i)
    /\ Overlays
    /\ Touch(Furthest(PageEnd(si, n, i), SlotStart(si, n, i + 1)))
    /\ Report("overlaid")
    /\ UNCHANGED <<inputVars, pass, si, lc, n, i, hit, directoryVars, resultVars>>

EndDirectory ==
    /\ pc = "slot"
    /\ ~MoreSlots
    /\ pc' = "blob"
    /\ n' = n + 1
    /\ UNCHANGED <<inputVars, pass, si, lc, i, hit, directoryVars, resultVars, reach, verdict>>

(* Mutant: a SuperBlob without a CodeDirectory is no reason for doubt.     *)
NothingOdd == suspect

Doubtful == suspect \/ ~anyCD

EndSlice ==
    /\ pc = "blob"
    /\ ~MoreEntries
    /\ hit' = (hit \/ (Checking /\ Doubtful))
    /\ NextSlice
    /\ UNCHANGED <<inputVars, pass, lc, n, i, directoryVars, resultVars, reach, verdict>>

-----------------------------------------------------------------------------
(* A pass is over.                                                         *)

Walked(p) == pc = "slice" /\ si > Visits /\ pass = p

EndDetect ==
    /\ Walked("detect")
    /\ \/ kind = "none" /\ Report("healthy") /\ UNCHANGED pass
       \/ kind # "none" /\ Begin("check") /\ UNCHANGED verdict
    /\ UNCHANGED <<inputVars, si, lc, n, i, hit, directoryVars, resultVars, reach>>

(* What is stale is repaired in memory, unless it is signed by somebody.   *)
EndCheck ==
    /\ Walked("check")
    /\ \/ ~hit /\ Report("healthy") /\ UNCHANGED pass
       \/ hit /\ kind = "cms" /\ Report("cms") /\ UNCHANGED pass
       \/ hit /\ kind # "cms" /\ Begin("prescan") /\ UNCHANGED verdict
    /\ UNCHANGED <<inputVars, si, lc, n, i, hit, directoryVars, resultVars, reach>>

EndPrescan ==
    /\ Walked("prescan")
    /\ \/ /\ refused
          /\ Report(IF task = "scan" THEN "unverifiable" ELSE "refused")
          /\ UNCHANGED pass
       \/ ~refused /\ Begin("repair") /\ UNCHANGED verdict
    /\ UNCHANGED <<inputVars, si, lc, n, i, hit, directoryVars, resultVars, reach>>

EndRepair ==
    /\ Walked("repair")
    /\ \/ hit /\ ~refused /\ Begin("recheck") /\ UNCHANGED verdict
       \/ (refused \/ ~hit) /\ Report("unverifiable") /\ UNCHANGED pass
    /\ UNCHANGED <<inputVars, si, lc, n, i, hit, directoryVars, resultVars, reach>>

EndRecheck ==
    /\ Walked("recheck")
    /\ Report(IF hit THEN "unverifiable" ELSE "repairable")
    /\ UNCHANGED <<inputVars, pass, si, lc, n, i, hit, directoryVars, resultVars, reach>>

Done == pc = "done" /\ UNCHANGED vars

Next == \/ NotMachO \/ Load \/ Plan \/ WalkContainer \/ SkipSlice \/ VisitSlice
        \/ ReadHeader \/ NoSignature \/ OtherCommand \/ CodeSignature
        \/ Unparsed \/ Parsed \/ CMSFound \/ NotCMS \/ NoCMS
        \/ BlobMissing \/ OtherBlob \/ CodeDirectory
        \/ BadPage \/ HashPage \/ Overlaid \/ EndDirectory \/ EndSlice
        \/ EndDetect \/ EndCheck \/ EndPrescan \/ EndRepair \/ EndRecheck
        \/ Done

Spec == Init /\ [][Next]_vars

-----------------------------------------------------------------------------
(* What holds where, for the proofs: what has been checked by then.        *)

AtSlice == pc \in {"header", "command", "super", "cms", "blob", "slot"}

CheckedSoFar ==
    /\ AtSlice => si <= Visits /\ Visited(si)
    /\ pc = "command" => HeaderFits(si) /\ CommandsFit(si)
    /\ pc \in {"cms", "blob", "slot"} => SuperBlobParses(si)
    /\ pc = "slot" => /\ n <= Slice(si).count
                      /\ i <= Directory.nCodeSlots
                      /\ EntryFits(si, n)
                      /\ BlobFits(si, n)
                      /\ Verifiable(si, n)

-----------------------------------------------------------------------------
(* Properties.                                                             *)

Passes == {"detect", "check", "prescan", "repair", "recheck"}

Labels == {"open", "walk", "slice", "header", "command", "super", "cms", "blob", "slot",
           "done"}

Verdicts == {"none", "healthy", "oversized", "cms", "unverifiable", "repairable", "refused",
             "overlaid"}

(* Every variable keeps to its type, and no loop goes past what it loops   *)
(* over: a slice, a blob and a slot are there when they are looked at.     *)
TypeOK ==
    /\ container \in ContainerType
    /\ task \in {"scan", "plan"}
    /\ pass \in Passes
    /\ pc \in Labels
    /\ si \in Nat \ {0} /\ lc \in Nat /\ n \in Nat \ {0} /\ i \in Nat
    /\ AtSlice => si <= Visits
    /\ pc = "slot" => n <= Slice(si).count /\ i <= Directory.nCodeSlots
    /\ kind \in {"none", "adhoc", "cms"}
    /\ {hit, suspect, anyCD, refused} \subseteq BOOLEAN
    /\ wrong \subseteq Nat \X Nat \X Nat
    /\ reach \in Nat
    /\ verdict \in Verdicts

(* No pass reads or writes beyond the end of the file, whatever offsets    *)
(* and sizes its headers give (engine.go:130-140, 338-442), and no page    *)
(* that is hashed reaches out of its slice (engine.go:324-326, 429-434).   *)
InBounds ==
    /\ reach <= size
    /\ AtSlice => Base(si) <= SliceEnd(si) /\ SliceEnd(si) <= size
    /\ pc = "slot" /\ MoreSlots /\ PageFits(si, n, i) =>
          /\ Base(si) <= PageStart(si, n, i)
          /\ PageEnd(si, n, i) <= SliceEnd(si)

CarriesCMS(s) ==
    /\ Signed(s) /\ SuperBlobParses(s)
    /\ \E b \in 1..Slice(s).count : CMSAt(s, b)

(* There is a CodeDirectory, and every slot of every one can be compared.  *)
Sound(s) ==
    /\ SuperBlobParses(s)
    /\ \A b \in 1..Slice(s).count : EntryFits(s, b) /\ BlobFits(s, b)
    /\ Directories(s) # {}
    /\ \A b \in Directories(s) :
          /\ Verifiable(s, b)
          /\ \A j \in 0..Blob(s, b).nCodeSlots - 1 : PageFits(s, b, j)

AllRight(s) ==
    \A b \in Directories(s) :
        \A j \in 0..Blob(s, b).nCodeSlots - 1 : <<s, b, j>> \notin wrong

(* "Could not parse" is never taken for "valid" (engine.go:314-318): a     *)
(* file that is reported healthy has in no slice a signature that is       *)
(* stale or that could not be verified in full, and one that is called     *)
(* repairable has none left in the repaired copy (doctor.go:145-151).      *)
HealthyIsVerified ==
    verdict \in {"healthy", "repairable"} /\ size >= MagicSize =>
        \A s \in InFile : Signed(s) => Sound(s) /\ AllRight(s)

Before(y, x) ==
    \/ y[1] < x[1]
    \/ y[1] = x[1] /\ y[2] < x[2]
    \/ y[1] = x[1] /\ y[2] = x[2] /\ y[3] < x[3]

(* One pass over the slots does not do: a slot lies in its own page, or it *)
(* lies in the page or over the bytes of a slot that was repaired before.  *)
Tangled == \E x, y \in Compared : (y = x \/ Before(y, x)) /\ Disturbs(x, y)

(* A file is called unverifiable only for a reason (doctor.go:145-151):    *)
(* a signature in it cannot be verified, or its slots are hashed, or       *)
(* overwritten, by what is repaired after them.  One that is merely stale  *)
(* is repairable, or CMS, also when slots lie in pages hashed later.       *)
UnverifiableHasCause ==
    task = "scan" /\ verdict = "unverifiable" =>
        (\E s \in InFile : Signed(s) /\ ~Sound(s)) \/ Tangled

(* "ErrCMSRepair without touching a byte" (engine.go:519-521, 549-552):    *)
(* nothing is rewritten in a container of which any slice is signed by a   *)
(* developer, and a repair of it is refused.                               *)
CMSIsLeftAlone ==
    (\E s \in InFile : CarriesCMS(s)) =>
        /\ wrong = container.wrong
        /\ verdict # "repairable"

=============================================================================
