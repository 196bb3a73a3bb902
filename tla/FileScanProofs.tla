--------------------------- MODULE FileScanProofs ---------------------------
(***************************************************************************)
(* Theorems about FileScan, for every container and all sizes of headers.  *)
(*                                                                         *)
(* Types and bounds: a step that reads has checked the offset it reads at, *)
(* and the invariant CheckedSoFar says what was checked where.  The rest   *)
(* is arithmetic: the k-th element of an array ends no later than the last.*)
(*                                                                         *)
(* Verdicts: the invariant Found says what the pass under way knows of the *)
(* slices behind it and of the blobs and slots it has taken of the one in  *)
(* hand, and what the passes before have left to it.                       *)
(***************************************************************************)
EXTENDS FileScan, TLAPS

(* Products are natural numbers and grow with their factors.               *)
LEMMA ProductNat == \A a, b \in Nat : a * b \in Nat
  BY SMT

LEMMA ProductMonotone ==
    ASSUME NEW a \in Nat, NEW b \in Nat, NEW c \in Nat, a <= b
    PROVE  a * c <= b * c
<1>1. PICK d \in Nat : b = a + d
  <2>1. b - a \in Nat /\ b = a + (b - a)
    BY SMT
  <2> QED BY <2>1
<1>2. b * c = a * c + d * c
  BY <1>1, SMT
<1>3. d * c \in Nat /\ a * c \in Nat
  BY <1>1, ProductNat
<1> QED BY <1>2, <1>3, SMT

LEMMA FurthestBounded ==
    ASSUME NEW a \in Nat, NEW b \in Nat
    PROVE  /\ Furthest(a, b) \in Nat
           /\ \A e \in Nat : a <= e /\ b <= e => Furthest(a, b) <= e
  BY SMT DEF Furthest

(* What the assumptions say of the file in hand.                           *)
LEMMA Sizes ==
    /\ Word \in Nat /\ MagicSize \in Nat /\ MinHeader \in Nat
    /\ LoadCommand \in Nat /\ LinkeditData \in Nat /\ FatHeader \in Nat
    /\ SuperBlob \in Nat /\ BlobIndex \in Nat /\ BlobHeader \in Nat /\ CDHeader \in Nat
    /\ MaxArchs \in Nat /\ MaxBlobs \in Nat
    /\ Word > 0 /\ FatHeader <= MinHeader /\ MagicSize <= MinHeader
  BY SizesAssumption, SMT

LEMMA ContainerTyped ==
    ASSUME container \in Containers
    PROVE  /\ container \in ContainerType
           /\ size \in Nat /\ container.archSize \in Nat /\ container.nfat \in Nat
           /\ container.format = "thin" => Len(container.slices) = 1
           /\ Fat /\ container.nfat <= MaxArchs => Len(container.slices) = container.nfat
  BY ContainersAssumption, Sizes, SMT DEF ContainerType, size, Fat

LEMMA VisitsTyped ==
    ASSUME container \in Containers
    PROVE  /\ Visits \in Nat
           /\ Visits <= Len(container.slices)
           /\ Visits > 0 => container.format \in {"thin", "fat"} /\ MinHeader <= size
           /\ Visits > 0 /\ Fat => Visits = container.nfat /\ ArchArrayEnd <= size
<1>1. Len(container.slices) \in Nat
  BY ContainerTyped, SMT DEF ContainerType
<1>2. ArchArrayEnd \in Nat
  <2>1. container.nfat * container.archSize \in Nat
    BY ContainerTyped, ProductNat
  <2> QED BY <2>1, Sizes, SMT DEF ArchArrayEnd
<1>3. container.format \in {"thin", "fat", "other"}
  BY ContainerTyped, SMT DEF ContainerType
<1>4. CASE size < MinHeader \/ container.format = "other"
  BY <1>1, <1>4, SMT DEF Visits
<1>5. CASE ~(size < MinHeader) /\ container.format = "thin"
  <2>1. Visits = 1 /\ Len(container.slices) = 1
    BY <1>5, ContainerTyped DEF Visits
  <2>2. ~Fat /\ MinHeader <= size
    BY <1>5, ContainerTyped, Sizes, SMT DEF Fat
  <2> QED BY <2>1, <2>2, <1>5, SMT
<1>6. CASE ~(size < MinHeader) /\ container.format = "fat"
  <2>1. Visits = IF container.nfat > MaxArchs \/ ArchArrayEnd > size THEN 0 ELSE container.nfat
    BY <1>6 DEF Visits
  <2> QED BY <2>1, <1>1, <1>2, <1>6, ContainerTyped, Sizes, SMT DEF Fat
<1> QED BY <1>3, <1>4, <1>5, <1>6

LEMMA SliceTyped ==
    ASSUME container \in Containers, NEW s \in Nat \ {0}, s <= Visits
    PROVE  /\ Slice(s) \in SliceType
           /\ Slice(s).header >= MinHeader \/ Slice(s).header = 0
           /\ Slice(s).count <= MaxBlobs => Len(Slice(s).blobs) = Slice(s).count
<1>1. s \in 1..Len(container.slices)
  BY VisitsTyped, ContainerTyped, SMT DEF ContainerType
<1>2. Slice(s) \in SliceType
  BY <1>1, ContainerTyped, SMT DEF ContainerType, Slice
<1> QED BY <1>1, <1>2, ContainersAssumption, SMT DEF Slice

LEMMA BlobTyped ==
    ASSUME container \in Containers, NEW s \in Nat \ {0}, s <= Visits,
           Slice(s).count <= MaxBlobs, NEW b \in Nat \ {0}, b <= Slice(s).count
    PROVE  Blob(s, b) \in BlobType
<1>1. b \in 1..Len(Slice(s).blobs) /\ Slice(s).blobs \in Seq(BlobType)
  BY SliceTyped, SMT DEF SliceType
<1> QED BY <1>1, SMT DEF Blob

(* The entries of the fat_arch array lie before its end.                   *)
LEMMA ArchEndFits ==
    ASSUME container \in Containers, NEW s \in Nat \ {0}, s <= Visits, Fat
    PROVE  ArchEnd(s) \in Nat /\ ArchEnd(s) <= ArchArrayEnd /\ ArchArrayEnd <= size
<1>1. s <= container.nfat /\ ArchArrayEnd <= size
  BY VisitsTyped, SMT
<1>2. s * container.archSize <= container.nfat * container.archSize
  BY <1>1, ContainerTyped, ProductMonotone
<1>3. s * container.archSize \in Nat /\ container.nfat * container.archSize \in Nat
  BY ContainerTyped, ProductNat
<1> QED BY <1>1, <1>2, <1>3, Sizes, SMT DEF ArchEnd, ArchArrayEnd

LEMMA SliceNumbers ==
    ASSUME container \in Containers, NEW s \in Nat \ {0}, s <= Visits
    PROVE  /\ Slice(s).off \in Nat /\ Slice(s).len \in Nat
           /\ Slice(s).header \in Nat /\ Slice(s).sizeofcmds \in Nat
           /\ Slice(s).sigOff \in Nat /\ Slice(s).sigSize \in Nat
           /\ Slice(s).count \in Nat
           /\ Base(s) \in Nat
           /\ CommandsEnd(s) \in Nat
           /\ SigStart(s) \in Nat /\ SigEnd(s) \in Nat
<1>1. /\ Slice(s).off \in Nat /\ Slice(s).len \in Nat
      /\ Slice(s).header \in Nat /\ Slice(s).sizeofcmds \in Nat
      /\ Slice(s).sigOff \in Nat /\ Slice(s).sigSize \in Nat
      /\ Slice(s).count \in Nat
  BY SliceTyped, Sizes, SMT DEF SliceType
<1>2. Base(s) \in Nat
  BY <1>1, SMT DEF Base
<1> QED BY <1>1, <1>2, SMT DEF CommandsEnd, SigStart, SigEnd

(* A slice that is visited lies within the file, and its end has not       *)
(* wrapped.                                                                *)
LEMMA SliceWithinFile ==
    ASSUME container \in Containers, NEW s \in Nat \ {0}, s <= Visits, Visited(s)
    PROVE  SliceEnd(s) \in Nat /\ Base(s) <= SliceEnd(s) /\ SliceEnd(s) <= size
<1>1. size \in 0..Word - 1
  BY ContainerTyped, SMT DEF ContainerType, size
<1>2. CASE container.format = "thin"
  BY <1>2, <1>1, Sizes, SMT DEF Base, SliceEnd
<1>3. CASE container.format = "fat"
  <2>1. Slice(s).len <= size - Slice(s).off /\ Slice(s).off < size
    BY <1>3 DEF Visited, ValidSliceBounds, Fat
  <2>2. SliceEnd(s) = Slice(s).off + Slice(s).len
    BY <2>1, <1>1, <1>3, SliceNumbers, Sizes, SMT DEF SliceEnd, Plus
  <2>3. Base(s) = Slice(s).off
    BY <1>3 DEF Base
  <2> QED BY <2>1, <2>2, <2>3, <1>1, SliceNumbers, Sizes, SMT
<1>4. container.format \in {"thin", "fat"}
  <2>1. Visits \in Nat /\ Visits > 0
    BY VisitsTyped, SMT
  <2> QED BY <2>1, VisitsTyped
<1> QED BY <1>2, <1>3, <1>4

LEMMA BlobNumbers ==
    ASSUME container \in Containers, NEW s \in Nat \ {0}, s <= Visits,
           Slice(s).count <= MaxBlobs, NEW b \in Nat \ {0}, b <= Slice(s).count
    PROVE  /\ Blob(s, b).off \in Nat /\ Blob(s, b).length \in Nat
           /\ Blob(s, b).hashOffset \in Nat /\ Blob(s, b).nCodeSlots \in Nat
           /\ Blob(s, b).codeLimit \in Nat /\ Blob(s, b).hashSize \in Nat
           /\ Blob(s, b).pageSize \in Nat
           /\ BlobStart(s, b) \in Nat
<1>1. Blob(s, b) \in BlobType
  BY BlobTyped
<1> QED BY <1>1, SliceNumbers, SMT DEF BlobType, BlobStart

(* hasNonEmptyCMS and fixupSlice read an index entry and the header of its *)
(* blob within the SuperBlob.                                              *)
LEMMA EntryReadFits ==
    ASSUME container \in Containers, NEW s \in Nat \ {0}, s <= Visits,
           SuperBlobParses(s), NEW b \in Nat \ {0}, b <= Slice(s).count
    PROVE  EntryRead(s, b) \in Nat /\ EntryRead(s, b) <= size
<1>1. SigEnd(s) <= size /\ Slice(s).count <= MaxBlobs
  BY DEF SuperBlobParses, SigFits
<1>2. EntryEnd(s, b) \in Nat
  <2>1. b * BlobIndex \in Nat
    BY ProductNat, Sizes
  <2>2. SigStart(s) \in Nat /\ SuperBlob \in Nat
    BY SliceNumbers, Sizes
  <2> QED BY <2>1, <2>2, SMT DEF EntryEnd
<1>3. CASE ~EntryFits(s, b)
  BY <1>3, ContainerTyped, SMT DEF EntryRead
<1>4. CASE EntryFits(s, b) /\ ~BlobFits(s, b)
  <2>1. EntryRead(s, b) = EntryEnd(s, b) /\ EntryEnd(s, b) <= SigEnd(s)
    BY <1>4 DEF EntryRead, EntryFits
  <2> QED BY <2>1, <1>1, <1>2, SliceNumbers, ContainerTyped, SMT
<1>5. CASE EntryFits(s, b) /\ BlobFits(s, b)
  <2>1. EntryRead(s, b) = Furthest(EntryEnd(s, b), BlobStart(s, b) + BlobHeader)
    BY <1>5 DEF EntryRead
  <2>2. EntryEnd(s, b) <= SigEnd(s) /\ BlobStart(s, b) + BlobHeader <= SigEnd(s)
    BY <1>5 DEF EntryFits, BlobFits
  <2>3. BlobStart(s, b) + BlobHeader \in Nat
    BY <1>1, BlobNumbers, Sizes, SMT
  <2>4. SigEnd(s) \in Nat /\ size \in Nat
    BY SliceNumbers, ContainerTyped
  <2> QED BY <2>1, <2>2, <2>3, <2>4, <1>1, <1>2, SMT DEF Furthest
<1> QED BY <1>3, <1>4, <1>5

(* A page that is hashed lies within its slice, and the slot it is         *)
(* compared with within the file.                                          *)
LEMMA PageWithinSlice ==
    ASSUME container \in Containers, NEW s \in Nat \ {0}, s <= Visits, Visited(s),
           SuperBlobParses(s), NEW b \in Nat \ {0}, b <= Slice(s).count,
           Verifiable(s, b), NEW j \in Nat, j < Blob(s, b).nCodeSlots, PageFits(s, b, j)
    PROVE  /\ Base(s) <= PageStart(s, b, j)
           /\ PageEnd(s, b, j) <= SliceEnd(s)
           /\ PageEnd(s, b, j) \in Nat /\ PageEnd(s, b, j) <= size
           /\ SlotStart(s, b, j + 1) \in Nat /\ SlotStart(s, b, j + 1) <= size
<1> DEFINE d == Blob(s, b)
<1>1. Slice(s).count <= MaxBlobs
  BY DEF SuperBlobParses
<1>2. /\ d.nCodeSlots \in Nat /\ d.hashSize \in Nat /\ d.pageSize \in Nat
      /\ d.codeLimit \in Nat /\ d.hashOffset \in Nat /\ BlobStart(s, b) \in Nat
  BY <1>1, BlobNumbers
<1>3. Base(s) \in Nat /\ SliceEnd(s) \in Nat /\ size \in Nat
  BY SliceNumbers, SliceWithinFile, ContainerTyped
<1>4. Base(s) + d.codeLimit <= SliceEnd(s) /\ SlotStart(s, b, d.nCodeSlots) <= size
  BY DEF Verifiable, SlotsFit
<1>5. j * d.pageSize \in Nat /\ (j + 1) * d.pageSize \in Nat
  <2>1. j + 1 \in Nat
    BY SMT
  <2> QED BY <2>1, <1>2, ProductNat
<1>6. Base(s) <= PageStart(s, b, j)
  BY <1>3, <1>5, SMT DEF PageStart
<1>7. PageEnd(s, b, j) \in Nat /\ PageEnd(s, b, j) <= SliceEnd(s)
  <2> DEFINE e == (j + 1) * d.pageSize
  <2>1. PageEnd(s, b, j) = IF d.codeLimit <= e THEN Base(s) + d.codeLimit ELSE Base(s) + e
    BY DEF PageEnd
  <2>2. e \in Nat
    BY <1>5
  <2> HIDE DEF e
  <2> QED BY <2>1, <2>2, <1>2, <1>3, <1>4, SMT
<1>8. /\ (j + 1) * d.hashSize <= d.nCodeSlots * d.hashSize
      /\ (j + 1) * d.hashSize \in Nat /\ d.nCodeSlots * d.hashSize \in Nat
  <2>1. j + 1 \in Nat /\ j + 1 <= d.nCodeSlots
    BY <1>2, SMT
  <2> QED BY <2>1, <1>2, ProductNat, ProductMonotone
<1>9. SlotStart(s, b, j + 1) \in Nat /\ SlotStart(s, b, j + 1) <= SlotStart(s, b, d.nCodeSlots)
  BY <1>8, <1>2, SMT DEF SlotStart
<1>10. SlotStart(s, b, d.nCodeSlots) \in Nat
  BY <1>8, <1>2, SMT DEF SlotStart
<1> QED BY <1>3, <1>4, <1>6, <1>7, <1>9, <1>10, SMT DEF PageFits

-----------------------------------------------------------------------------
(* The invariant.                                                          *)

Typed ==
    /\ task \in {"scan", "plan"}
    /\ pass \in Passes
    /\ pc \in Labels
    /\ si \in Nat \ {0} /\ lc \in Nat /\ n \in Nat \ {0} /\ i \in Nat
    /\ kind \in {"none", "adhoc", "cms"}
    /\ wrong \subseteq Nat \X Nat \X Nat
    /\ verdict \in Verdicts

Flags == hit \in BOOLEAN /\ suspect \in BOOLEAN /\ anyCD \in BOOLEAN /\ refused \in BOOLEAN

ReadSoFar == reach \in Nat /\ reach <= size

FileInv == container \in Containers /\ Typed /\ Flags /\ CheckedSoFar /\ ReadSoFar

LEMMA CommandTyped ==
    ASSUME container \in Containers, si \in Nat \ {0}, si <= Visits, n \in Nat \ {0},
           CommandStarts
    PROVE  Command \in CommandType
<1>1. Slice(si).commands \in Seq(CommandType)
  BY SliceTyped, SMT DEF SliceType
<1>2. n \in 1..Len(Slice(si).commands)
  BY <1>1, SMT DEF CommandStarts
<1> QED BY <1>1, <1>2, SMT DEF Command

LEMMA FileInvInit == Init => FileInv
<1> SUFFICES ASSUME Init PROVE FileInv
  OBVIOUS
<1>1. container \in Containers
  BY DEF Init
<1>2. Typed
  <2>1. container.wrong \subseteq Nat \X Nat \X Nat
    BY <1>1, ContainerTyped DEF ContainerType
  <2> QED BY <2>1, SMT DEF Init, Typed, Passes, Labels, Verdicts
<1>3. CheckedSoFar
  BY DEF Init, CheckedSoFar, AtSlice
<1>4. ReadSoFar
  BY <1>1, ContainerTyped, SMT DEF Init, ReadSoFar
<1>5. Flags
  BY DEF Init, Flags
<1> QED BY <1>1, <1>2, <1>3, <1>4, <1>5 DEF FileInv

LEMMA FlagsStep ==
    ASSUME Flags, Next
    PROVE  Flags' /\ UNCHANGED container
<1> USE DEF Flags, inputVars, directoryVars, resultVars
<1>1. CASE NotMachO \/ Load \/ Plan \/ WalkContainer \/ SkipSlice \/ VisitSlice
  BY <1>1 DEF NotMachO, Load, Plan, WalkContainer, SkipSlice, VisitSlice
<1>2. CASE ReadHeader \/ NoSignature \/ OtherCommand \/ CodeSignature
  BY <1>2 DEF ReadHeader, NoSignature, OtherCommand, CodeSignature
<1>3. CASE Unparsed \/ Parsed \/ CMSFound \/ NotCMS \/ NoCMS
  BY <1>3 DEF Unparsed, Parsed, CMSFound, Refuses, NotCMS, NoCMS
<1>4. CASE BlobMissing \/ OtherBlob \/ CodeDirectory
  BY <1>4 DEF BlobMissing, OtherBlob, CodeDirectory
<1>5. CASE BadPage \/ HashPage \/ Overlaid \/ EndDirectory \/ EndSlice
  BY <1>5 DEF Report, BadPage, HashPage, Overlaid, EndDirectory, EndSlice
<1>6. CASE EndDetect \/ EndCheck \/ EndPrescan \/ EndRepair \/ EndRecheck \/ Done
  BY <1>6 DEF EndDetect, EndCheck, EndPrescan, EndRepair, EndRecheck, Done, vars
<1> QED BY <1>1, <1>2, <1>3, <1>4, <1>5, <1>6 DEF Next

(* The slots that are compared are numbers.                                *)
LEMMA ComparedTyped ==
    ASSUME container \in Containers
    PROVE  Compared \subseteq Nat \X Nat \X Nat
<1> SUFFICES ASSUME NEW s \in InFile, NEW b \in Directories(s),
                    NEW j \in 0..Blob(s, b).nCodeSlots - 1
             PROVE  <<s, b, j>> \in Nat \X Nat \X Nat
  BY DEF Compared, SlotsOf
<1>1. s \in Nat /\ b \in Nat /\ j \in Nat
  BY VisitsTyped DEF InFile, Directories
<1> QED BY <1>1

(* What a repair does to the slots when it is at one of them: that one is  *)
(* right, and what it lies over may be wrong.                              *)
LEMMA WrittenSlots ==
    ASSUME HashPage
    PROVE  /\ ~Rewrites => wrong' = wrong
           /\ \A y \in wrong' : y \in wrong \/ (y \in Compared /\ Disturbs(Current, y))
           /\ Rewrites /\ Current \in wrong' => Current \in Compared /\ Disturbs(Current, Current)
<1>1. CASE ~Rewrites
  BY <1>1 DEF HashPage
<1>2. CASE Rewrites
  <2> DEFINE D == {y \in Compared : Disturbs(Current, y)}
  <2>1. PICK U \in SUBSET D : wrong' = (wrong \ ({Current} \cup D)) \cup U
    BY <1>2 DEF HashPage, WriteSlot
  <2> QED BY <1>2, <2>1
<1> QED BY <1>1, <1>2

LEMMA TypedStep ==
    ASSUME FileInv, Next
    PROVE  Typed'
<1> USE DEF Typed, Passes, Labels, Verdicts, inputVars, directoryVars, resultVars, Begin, Report, NextSlice
<1>0. container \in Containers /\ Typed /\ CheckedSoFar
  BY DEF FileInv
<1>1. CASE NotMachO \/ Load \/ Plan \/ WalkContainer \/ SkipSlice \/ VisitSlice
  BY <1>0, <1>1, SMT DEF NotMachO, Load, Plan, WalkContainer, SkipSlice, VisitSlice
<1>2. CASE ReadHeader
  <2>1. HeaderFits(si) /\ CommandsFit(si) => Base(si) + Slice(si).header \in Nat
    <3>1. si <= Visits
      BY <1>0, <1>2 DEF ReadHeader, CheckedSoFar, AtSlice
    <3> QED BY <1>0, <3>1, SliceNumbers, SMT
  <2> QED BY <1>0, <1>2, <2>1, SMT DEF ReadHeader
<1>3. CASE NoSignature \/ CodeSignature
  BY <1>0, <1>3, SMT DEF NoSignature, CodeSignature
<1>4. CASE OtherCommand
  <2>1. lc + Command.size \in Nat
    <3>1. si <= Visits /\ CommandStarts
      BY <1>0, <1>4 DEF OtherCommand, CheckedSoFar, AtSlice, CommandFits
    <3>2. Command \in CommandType
      BY <1>0, <3>1, CommandTyped
    <3> QED BY <1>0, <3>2, SMT DEF CommandType
  <2> QED BY <1>0, <1>4, <2>1, SMT DEF OtherCommand
<1>5. CASE Unparsed \/ Parsed
  <2>1. Strongest("adhoc") \in {"none", "adhoc", "cms"}
    BY DEF Strongest
  <2> QED BY <1>0, <1>5, <2>1, SMT DEF Unparsed, Parsed, Checking
<1>6. CASE CMSFound
  <2>1. Visits + 1 \in Nat \ {0}
    BY <1>0, VisitsTyped, SMT
  <2> QED BY <1>0, <1>6, <2>1, SMT DEF CMSFound
<1>7. CASE NotCMS \/ NoCMS
  BY <1>0, <1>7, SMT DEF NotCMS, NoCMS
<1>8. CASE BlobMissing
  <2>1. Slice(si).count + 1 \in Nat \ {0}
    <3>1. si <= Visits
      BY <1>0, <1>8 DEF BlobMissing, CheckedSoFar, AtSlice
    <3> QED BY <1>0, <3>1, SliceNumbers, SMT
  <2> QED BY <1>0, <1>8, <2>1, SMT DEF BlobMissing
<1>9. CASE OtherBlob \/ CodeDirectory
  BY <1>0, <1>9, SMT DEF OtherBlob, CodeDirectory
<1>10. CASE BadPage \/ Overlaid \/ EndDirectory \/ EndSlice
  BY <1>0, <1>10, SMT DEF BadPage, Overlaid, EndDirectory, EndSlice, Checking, Doubtful
<1>12. CASE HashPage
  <2>1. wrong' \subseteq Nat \X Nat \X Nat
    BY <1>0, <1>12, WrittenSlots, ComparedTyped
  <2> QED BY <1>0, <1>12, <2>1, SMT DEF HashPage
<1>11. CASE EndDetect \/ EndCheck \/ EndPrescan \/ EndRepair \/ EndRecheck \/ Done
  BY <1>0, <1>11, SMT DEF EndDetect, EndCheck, EndPrescan, EndRepair, EndRecheck, Done, vars
<1> QED BY <1>1, <1>2, <1>3, <1>4, <1>5, <1>6, <1>7, <1>8, <1>9, <1>10, <1>11, <1>12 DEF Next

(* What was checked of a slice or a blob stays checked.                    *)
LEMMA SliceFrame ==
    ASSUME UNCHANGED <<container, si>>
    PROVE  /\ Visits' = Visits
           /\ Slice(si)' = Slice(si)
           /\ Visited(si)' = Visited(si)
           /\ HeaderFits(si)' = HeaderFits(si)
           /\ CommandsFit(si)' = CommandsFit(si)
           /\ SuperBlobParses(si)' = SuperBlobParses(si)
  BY DEF Visits, Slice, Visited, HeaderFits, CommandsFit, SuperBlobParses, size, ArchArrayEnd,
         Fat, ValidSliceBounds, Base, CommandsEnd, SigFits, SigEnd, SigStart

LEMMA BlobFrame ==
    ASSUME UNCHANGED <<container, si, n>>
    PROVE  /\ Directory' = Directory
           /\ EntryFits(si, n)' = EntryFits(si, n)
           /\ BlobFits(si, n)' = BlobFits(si, n)
           /\ Verifiable(si, n)' = Verifiable(si, n)
  BY DEF Directory, Blob, EntryFits, EntryEnd, BlobFits, BlobStart, Verifiable, DirectoryFits,
         DirectoryHeaderFits, SlotsFit, SlotStart, SigStart, SigEnd, SliceEnd, Base, Plus, size,
         Slice

LEMMA CheckedStep ==
    ASSUME FileInv, Next
    PROVE  CheckedSoFar'
<1> USE DEF CheckedSoFar, AtSlice, inputVars
<1>0. container \in Containers /\ Typed /\ CheckedSoFar /\ UNCHANGED container
  BY FlagsStep DEF FileInv
<1>1. CASE pc' \in {"open", "walk", "slice", "done"}
  BY <1>1
<1>2. CASE VisitSlice
  BY <1>0, <1>2, SliceFrame DEF VisitSlice
<1>3. CASE ReadHeader
  BY <1>0, <1>3, SliceFrame DEF ReadHeader, NextSlice
<1>4. CASE OtherCommand \/ CodeSignature
  BY <1>0, <1>4, SliceFrame DEF OtherCommand, CodeSignature
<1>5. CASE Parsed \/ NotCMS \/ NoCMS
  BY <1>0, <1>5, SliceFrame DEF Parsed, NotCMS, NoCMS, NextSlice
<1>6. CASE BlobMissing \/ OtherBlob \/ EndDirectory
  BY <1>0, <1>6, SliceFrame DEF BlobMissing, OtherBlob, EndDirectory
<1>7. CASE CodeDirectory
  <2>1. CASE ~Verifiable(si, n)
    BY <1>0, <1>7, <2>1, SliceFrame DEF CodeDirectory
  <2>2. CASE Verifiable(si, n)
    <3>1. UNCHANGED <<container, si, n>> /\ pc' = "slot" /\ i' = 0 /\ pc = "blob" /\ MoreEntries
      BY <1>0, <1>7, <2>2 DEF CodeDirectory
    <3>2. 0 <= Directory.nCodeSlots /\ n <= Slice(si).count
      <4>1. si <= Visits /\ Slice(si).count <= MaxBlobs /\ n <= Slice(si).count
        BY <1>0, <3>1 DEF MoreEntries, SuperBlobParses
      <4>2. Blob(si, n).nCodeSlots \in Nat
        BY <1>0, <4>1, BlobNumbers DEF Typed
      <4> QED BY <4>1, <4>2, SMT DEF Directory
    <3>3. EntryFits(si, n) /\ BlobFits(si, n)
      BY <1>7 DEF CodeDirectory
    <3> QED BY <1>0, <2>2, <3>1, <3>2, <3>3, SliceFrame, BlobFrame
  <2> QED BY <2>1, <2>2
<1>8. CASE BadPage \/ HashPage
  <2>1. UNCHANGED <<container, si, n, pc>> /\ pc = "slot" /\ i' = i + 1 /\ MoreSlots
    BY <1>0, <1>8 DEF BadPage, HashPage
  <2>2. i + 1 <= Directory.nCodeSlots
    <3>1. si <= Visits /\ Slice(si).count <= MaxBlobs /\ n <= Slice(si).count
      BY <1>0, <2>1 DEF SuperBlobParses
    <3>2. Blob(si, n).nCodeSlots \in Nat
      BY <1>0, <3>1, BlobNumbers DEF Typed
    <3> QED BY <1>0, <2>1, <3>2, SMT DEF Directory, MoreSlots, Typed
  <2> QED BY <1>0, <2>1, <2>2, SliceFrame, BlobFrame
<1>9. CASE Done
  BY <1>0, <1>9, SliceFrame, BlobFrame DEF Done, vars
<1>10. CASE NotMachO \/ Load \/ Plan \/ WalkContainer \/ SkipSlice \/ NoSignature
  BY <1>1, <1>10 DEF NotMachO, Load, Plan, WalkContainer, SkipSlice, NoSignature, Begin, Report,
                     NextSlice
<1>11. CASE Unparsed \/ CMSFound \/ EndSlice
  BY <1>1, <1>11 DEF Unparsed, CMSFound, EndSlice, NextSlice
<1>12. CASE EndDetect \/ EndCheck \/ EndPrescan \/ EndRepair \/ EndRecheck \/ Overlaid
  BY <1>1, <1>12 DEF Overlaid, EndDetect, EndCheck, EndPrescan, EndRepair, EndRecheck, Begin, Report
<1> QED BY <1>2, <1>3, <1>4, <1>5, <1>6, <1>7, <1>8, <1>9, <1>10, <1>11, <1>12 DEF Next

LEMMA TouchFits ==
    ASSUME container \in Containers, UNCHANGED container, ReadSoFar,
           NEW e \in Nat, e <= size, Touch(e)
    PROVE  ReadSoFar'
<1>1. size \in Nat /\ size' = size
  BY ContainerTyped DEF size
<1> QED BY <1>1, SMT DEF ReadSoFar, Touch, Furthest

LEMMA NothingRead ==
    ASSUME UNCHANGED container, ReadSoFar, UNCHANGED reach
    PROVE  ReadSoFar'
  BY DEF ReadSoFar, size

LEMMA ReadStep ==
    ASSUME FileInv, Next
    PROVE  ReadSoFar'
<1>0. /\ container \in Containers /\ Typed /\ CheckedSoFar /\ ReadSoFar
      /\ UNCHANGED container
      /\ size \in Nat /\ 0 \in Nat /\ 0 <= size
      /\ si \in Nat \ {0} /\ n \in Nat \ {0} /\ lc \in Nat /\ i \in Nat
  <2>1. container \in Containers /\ Typed /\ CheckedSoFar /\ ReadSoFar /\ UNCHANGED container
    BY FlagsStep DEF FileInv
  <2> QED BY <2>1, ContainerTyped, SMT DEF Typed
<1>1. CASE AtSlice
  <2>0. si <= Visits /\ Visited(si)
    BY <1>0, <1>1 DEF CheckedSoFar
  <2>1. CASE ReadHeader
    <3>1. HeaderFits(si) => Base(si) + MinHeader \in Nat /\ Base(si) + MinHeader <= size
      BY <1>0, <2>0, SliceNumbers, Sizes, SMT DEF HeaderFits
    <3> QED BY <1>0, <2>1, <3>1, TouchFits DEF ReadHeader
  <2>2. CASE NoSignature \/ OtherCommand \/ CodeSignature
    <3>1. CommandsFit(si)
      BY <1>0, <2>2 DEF NoSignature, OtherCommand, CodeSignature, CheckedSoFar
    <3>2. CommandsEnd(si) \in Nat /\ CommandsEnd(si) <= size
      BY <1>0, <2>0, <3>1, SliceNumbers DEF CommandsFit
    <3>3. CommandStarts => lc + LoadCommand \in Nat /\ lc + LoadCommand <= size
      BY <1>0, <3>2, Sizes, SMT DEF CommandStarts
    <3>4. CommandFits /\ Command.signature =>
             lc + LinkeditData \in Nat /\ lc + LinkeditData <= size
      <4> SUFFICES ASSUME CommandFits, Command.signature
                   PROVE  lc + LinkeditData \in Nat /\ lc + LinkeditData <= size
        OBVIOUS
      <4>1. Command \in CommandType
        BY <1>0, <2>0, CommandTyped DEF CommandFits
      <4>2. Command.size \in Nat
        BY <4>1, SMT DEF CommandType
      <4>3. lc + Command.size <= CommandsEnd(si) /\ Command.size >= LinkeditData
        BY DEF CommandFits
      <4> QED BY <1>0, <3>2, <4>2, <4>3, Sizes, SMT
    <3>5. CASE NoSignature
      BY <1>0, <3>3, <3>5, TouchFits DEF NoSignature
    <3>6. CASE OtherCommand
      BY <1>0, <3>3, <3>6, TouchFits DEF OtherCommand, CommandFits
    <3>7. CASE CodeSignature
      BY <1>0, <3>4, <3>7, TouchFits DEF CodeSignature
    <3> QED BY <2>2, <3>5, <3>6, <3>7
  <2>3. CASE Unparsed \/ Parsed
    <3>1. SigFits(si) => SigStart(si) + SuperBlob \in Nat /\ SigStart(si) + SuperBlob <= size
      BY <1>0, <2>0, SliceNumbers, Sizes, SMT DEF SigFits, SigEnd
    <3>2. SuperBlobParses(si) => SigFits(si)
      BY DEF SuperBlobParses
    <3> QED BY <1>0, <2>3, <3>1, <3>2, TouchFits DEF Unparsed, Parsed
  <2>4. CASE pc \in {"cms", "blob"} /\ MoreEntries
    <3>1. SuperBlobParses(si) /\ n <= Slice(si).count
      BY <1>0, <2>4 DEF CheckedSoFar, MoreEntries
    <3>2. EntryRead(si, n) \in Nat /\ EntryRead(si, n) <= size
      BY <1>0, <2>0, <3>1, EntryReadFits
    <3>3. CASE CMSFound \/ NotCMS
      BY <1>0, <3>2, <3>3, TouchFits DEF CMSFound, NotCMS
    <3>4. CASE OtherBlob
      BY <1>0, <3>2, <3>4, TouchFits DEF OtherBlob
    <3>5. CASE CodeDirectory
      <4> DEFINE h == IF DirectoryHeaderFits(si, n) THEN BlobStart(si, n) + CDHeader ELSE 0
      <4>1. h \in Nat /\ h <= size
        <5>1. SigEnd(si) <= size /\ Slice(si).count <= MaxBlobs
          BY <3>1 DEF SuperBlobParses, SigFits
        <5>2. SigEnd(si) \in Nat /\ BlobStart(si, n) \in Nat
          BY <1>0, <2>0, <3>1, <5>1, SliceNumbers, BlobNumbers
        <5> QED BY <1>0, <5>1, <5>2, Sizes, SMT DEF DirectoryHeaderFits
      <4>2. Furthest(EntryRead(si, n), h) \in Nat /\ Furthest(EntryRead(si, n), h) <= size
        <5> HIDE DEF h
        <5> QED BY <1>0, <3>2, <4>1, FurthestBounded
      <4>3. Touch(Furthest(EntryRead(si, n), h))
        BY <3>5 DEF CodeDirectory
      <4> HIDE DEF h
      <4> QED BY <1>0, <4>2, <4>3, TouchFits
    <3>6. CASE NoCMS \/ BlobMissing \/ EndSlice
      BY <1>0, <3>6, NothingRead DEF NoCMS, BlobMissing, EndSlice
    <3> QED BY <2>4, <3>3, <3>4, <3>5, <3>6, <1>0 DEF Next, ReadHeader, NoSignature, OtherCommand,
            CodeSignature, Unparsed, Parsed, NotMachO, Load, Plan, WalkContainer, SkipSlice,
            VisitSlice, BadPage, HashPage, Overlaid, EndDirectory, EndDetect, EndCheck, EndPrescan,
            EndRepair, EndRecheck, Walked, Done
  <2>5. CASE HashPage \/ Overlaid
    <3>1. /\ SuperBlobParses(si) /\ n <= Slice(si).count /\ Verifiable(si, n)
          /\ i < Blob(si, n).nCodeSlots /\ PageFits(si, n, i)
      BY <1>0, <2>5 DEF HashPage, Overlaid, CheckedSoFar, MoreSlots, Directory
    <3>2. /\ PageEnd(si, n, i) \in Nat /\ PageEnd(si, n, i) <= size
          /\ SlotStart(si, n, i + 1) \in Nat /\ SlotStart(si, n, i + 1) <= size
      BY <1>0, <2>0, <3>1, PageWithinSlice
    <3>3. Furthest(PageEnd(si, n, i), SlotStart(si, n, i + 1)) \in Nat
      BY <3>2, FurthestBounded
    <3>4. Furthest(PageEnd(si, n, i), SlotStart(si, n, i + 1)) <= size
      BY <1>0, <3>2, FurthestBounded
    <3> QED BY <1>0, <2>5, <3>3, <3>4, TouchFits DEF HashPage, Overlaid
  <2>6. CASE NoCMS \/ EndSlice \/ BadPage \/ EndDirectory
    BY <1>0, <2>6, NothingRead DEF NoCMS, EndSlice, BadPage, EndDirectory
  <2> QED BY <1>1, <2>1, <2>2, <2>3, <2>4, <2>5, <2>6 DEF Next, AtSlice, NotMachO, Load, Plan,
          WalkContainer, SkipSlice, VisitSlice, CMSFound, NotCMS, BlobMissing, OtherBlob,
          CodeDirectory, EndDetect, EndCheck, EndPrescan, EndRepair, EndRecheck, Walked, Done
<1>2. CASE ~AtSlice
  <2>1. CASE WalkContainer
    BY <1>0, <2>1, TouchFits, Sizes, SMT DEF WalkContainer
  <2>2. CASE SkipSlice \/ VisitSlice
    <3>1. si <= Visits
      BY <2>2 DEF SkipSlice, VisitSlice
    <3>2. Fat => ArchEnd(si) \in Nat /\ ArchEnd(si) <= size
      <4> SUFFICES ASSUME Fat PROVE ArchEnd(si) \in Nat /\ ArchEnd(si) <= size
        OBVIOUS
      <4>1. ArchEnd(si) \in Nat /\ ArchEnd(si) <= ArchArrayEnd /\ ArchArrayEnd <= size
        BY <1>0, <3>1, ArchEndFits
      <4>2. ArchArrayEnd \in Nat
        <5>1. container.nfat * container.archSize \in Nat
          BY <1>0, ContainerTyped, ProductNat
        <5> QED BY <5>1, Sizes, SMT DEF ArchArrayEnd
      <4> QED BY <1>0, <4>1, <4>2, SMT
    <3> QED BY <1>0, <2>2, <3>2, TouchFits DEF SkipSlice, VisitSlice, Visited
  <2>3. CASE NotMachO \/ Load \/ Plan \/ Done
    BY <1>0, <2>3, NothingRead DEF NotMachO, Load, Plan, Done, vars
  <2>4. CASE EndDetect \/ EndCheck \/ EndPrescan \/ EndRepair \/ EndRecheck
    BY <1>0, <2>4, NothingRead DEF EndDetect, EndCheck, EndPrescan, EndRepair, EndRecheck
  <2> QED BY <1>2, <2>1, <2>2, <2>3, <2>4 DEF Next, AtSlice, ReadHeader, NoSignature,
          OtherCommand, CodeSignature, Unparsed, Parsed, CMSFound, NotCMS, NoCMS, BlobMissing,
          OtherBlob, CodeDirectory, BadPage, HashPage, Overlaid, EndDirectory, EndSlice
<1> QED BY <1>1, <1>2

LEMMA FileInvStep == FileInv /\ [Next]_vars => FileInv'
<1>1. ASSUME FileInv, Next PROVE FileInv'
  <2>1. Flags' /\ UNCHANGED container
    BY <1>1, FlagsStep DEF FileInv
  <2> QED BY <1>1, <2>1, TypedStep, CheckedStep, ReadStep DEF FileInv
<1>2. ASSUME FileInv, UNCHANGED vars PROVE FileInv'
  <2>1. CheckedSoFar'
    BY <1>2, SliceFrame, BlobFrame DEF FileInv, vars, CheckedSoFar, AtSlice
  <2> QED BY <1>2, <2>1 DEF FileInv, vars, Typed, Flags, ReadSoFar, size
<1> QED BY <1>1, <1>2

LEMMA FileInvHolds == Spec => []FileInv
  BY FileInvInit, FileInvStep, PTL DEF Spec

(* Every variable keeps to its type and no loop outruns what it loops over *)
(* (engine.go:170, 196, 280, 363, 435).                                    *)
THEOREM FileTypes == Spec => []TypeOK
<1>1. FileInv => TypeOK
  <2> SUFFICES ASSUME FileInv PROVE TypeOK
    OBVIOUS
  <2>1. container \in ContainerType /\ reach \in Nat
    BY ContainerTyped DEF FileInv, ReadSoFar
  <2> QED BY <2>1 DEF FileInv, TypeOK, Typed, Flags, CheckedSoFar
<1> QED BY <1>1, FileInvHolds, PTL

(* Whatever numbers a file holds, and whatever the sizes of its headers,   *)
(* no pass reads or writes past its end, and no page is hashed that        *)
(* reaches out of its slice (engine.go:130-140, 324-326, 338-442).         *)
THEOREM ReadsStayInBounds == Spec => []InBounds
<1>1. FileInv => InBounds
  <2> SUFFICES ASSUME FileInv PROVE InBounds
    OBVIOUS
  <2>0. container \in Containers /\ si \in Nat \ {0} /\ n \in Nat \ {0} /\ i \in Nat /\ CheckedSoFar
    BY DEF FileInv, Typed
  <2>1. reach <= size
    BY DEF FileInv, ReadSoFar
  <2>2. AtSlice => Base(si) <= SliceEnd(si) /\ SliceEnd(si) <= size
    BY <2>0, SliceWithinFile DEF CheckedSoFar
  <2>3. pc = "slot" /\ MoreSlots /\ PageFits(si, n, i) =>
          Base(si) <= PageStart(si, n, i) /\ PageEnd(si, n, i) <= SliceEnd(si)
    BY <2>0, PageWithinSlice DEF CheckedSoFar, AtSlice, MoreSlots, Directory
  <2> QED BY <2>1, <2>2, <2>3 DEF InBounds
<1> QED BY <1>1, FileInvHolds, PTL

-----------------------------------------------------------------------------
(* What the passes have found out by then.                                 *)

Walking == AtSlice \/ pc = "slice"

(* What the pass under way, or over, says of a slice it is done with.      *)
Settled(s) ==
    /\ pass = "detect" => /\ kind = "none" => ~Signed(s)
                          /\ kind # "cms" => ~CarriesCMS(s)
    /\ Checking /\ ~hit /\ Signed(s) => Sound(s) /\ AllRight(s)
    /\ pass = "prescan" /\ ~refused => ~CarriesCMS(s)
    /\ pass = "repair" /\ ~Tangled /\ Signed(s) /\ Sound(s) => AllRight(s)

BehindIsSettled == Walking => \A s \in InFile : s < si => Settled(s)

(* findSignature goes on past this load command.                           *)
PassedBy(s, e) ==
    LET c == Slice(s).commands[e]
    IN ~c.signature /\ c.size >= LoadCommand /\ Base(s) + c.at + c.size <= CommandsEnd(s)

AtCommand ==
    pc = "command" =>
        /\ n <= Len(Slice(si).commands) => lc = Base(si) + Command.at
        /\ \A e \in 1..n-1 : PassedBy(si, e)

AtSignature ==
    /\ pc \in {"super", "cms", "blob", "slot"} => Signed(si)
    /\ pc = "cms" => /\ pass \in {"detect", "prescan", "repair"}
                     /\ ~suspect /\ ~anyCD
                     /\ pass = "detect" => kind # "none"
                     /\ \A b \in 1..n-1 : EntryFits(si, b) /\ ~CMSAt(si, b)
    /\ pc \in {"blob", "slot"} => pass \in {"check", "repair", "recheck"}

(* What fixupSlice found of a blob that it took without a doubt.           *)
Fine(s, b) ==
    /\ EntryFits(s, b) /\ BlobFits(s, b)
    /\ b \in Directories(s) =>
          /\ Verifiable(s, b)
          /\ \A j \in 0..Blob(s, b).nCodeSlots - 1 : PageFits(s, b, j)

(* Nothing is wrong behind it: what was is repaired, or nothing was.       *)
Clean == (pass = "repair" /\ ~Tangled) \/ ~hit

Right(s, b) ==
    b \in Directories(s) => \A j \in 0..Blob(s, b).nCodeSlots - 1 : <<s, b, j>> \notin wrong

AtBlob ==
    pc \in {"blob", "slot"} =>
        /\ suspect => ~Sound(si)
        /\ anyCD => Directories(si) # {}
        /\ ~suspect => \A b \in 1..n-1 : /\ Fine(si, b)
                                         /\ b \in Directories(si) => anyCD
                                         /\ Clean => Right(si, b)

AtSlot ==
    pc = "slot" =>
        /\ n \in Directories(si) /\ anyCD
        /\ ~suspect => \A j \in 0..i-1 : /\ PageFits(si, n, j)
                                         /\ Clean => <<si, n, j>> \notin wrong

NobodySigned == \A s \in InFile : ~CarriesCMS(s)

(* A signature that is stale or cannot be verified.                        *)
FlawedIn(w) ==
    \E s \in InFile :
        /\ Signed(s)
        /\ \/ ~Sound(s)
           \/ \E b \in Directories(s) :
                 \E j \in 0..Blob(s, b).nCodeSlots - 1 : <<s, b, j>> \in w

Flawed == FlawedIn(wrong)

(* What one pass leaves to the next of who signed the file.                *)
SignersKnown ==
    /\ refused => pass = "prescan" /\ ~NobodySigned
    /\ pass \in {"repair", "recheck"} => NobodySigned
    /\ pass \notin {"repair", "recheck"} => wrong = container.wrong /\ verdict # "repairable"
    /\ task = "scan" /\ pass # "detect" /\ kind # "cms" => NobodySigned
    /\ task = "scan" /\ pass \notin {"detect", "check"} => kind # "cms"
    /\ pc = "open" => pass = "detect"
    /\ pc # "done" => verdict = "none"

(* What one pass leaves to the next of what is stale.                      *)
FlawsKnown ==
    /\ Checking /\ Walking /\ hit => Flawed
    /\ task = "scan" /\ pass \in {"prescan", "repair"} => FlawedIn(container.wrong)
    /\ pass = "repair" /\ (pc = "walk" \/ ~hit) => wrong = container.wrong
    /\ pass = "recheck" /\ ~Tangled => \A s \in InFile : Signed(s) /\ Sound(s) => AllRight(s)

Found == /\ AtCommand /\ AtSignature /\ AtBlob /\ AtSlot
         /\ BehindIsSettled /\ SignersKnown /\ FlawsKnown

(* What is said of the file alone is not changed by a step.                *)
LEMMA SliceStays ==
    ASSUME UNCHANGED container
    PROVE  /\ InFile' = InFile
           /\ \A s : /\ Visited(s)' = Visited(s)
                     /\ Slice(s)' = Slice(s)
                     /\ Signed(s)' = Signed(s)
                     /\ SuperBlobParses(s)' = SuperBlobParses(s)
<1> USE DEF Slice, Base, size, CommandsEnd
<1>1. Visits' = Visits /\ \A s : Visited(s)' = Visited(s)
  BY DEF Visits, Visited, Fat, ValidSliceBounds, ArchArrayEnd
<1>2. \A s : HeaderFits(s)' = HeaderFits(s) /\ CommandsFit(s)' = CommandsFit(s)
  BY DEF HeaderFits, CommandsFit
<1>3. \A s : Signed(s)' = Signed(s)
  BY <1>2 DEF Signed
<1>4. \A s : SuperBlobParses(s)' = SuperBlobParses(s)
  BY DEF SuperBlobParses, SigFits, SigEnd, SigStart
<1> QED
  BY <1>1, <1>3, <1>4 DEF InFile

(* Nor is what is said of a blob.                                          *)
LEMMA BlobStays ==
    ASSUME UNCHANGED container
    PROVE  \A s, b : /\ Blob(s, b)' = Blob(s, b)
                     /\ EntryFits(s, b)' = EntryFits(s, b)
                     /\ BlobFits(s, b)' = BlobFits(s, b)
                     /\ Verifiable(s, b)' = Verifiable(s, b)
                     /\ CMSAt(s, b)' = CMSAt(s, b)
                     /\ \A j : PageFits(s, b, j)' = PageFits(s, b, j)
<1> USE DEF Blob, Slice, Base, size, SigStart, SigEnd, BlobStart
<1>1. \A s, b : EntryFits(s, b)' = EntryFits(s, b) /\ BlobFits(s, b)' = BlobFits(s, b)
  BY DEF EntryFits, EntryEnd, BlobFits
<1>2. \A s, b : Verifiable(s, b)' = Verifiable(s, b)
  BY DEF Verifiable, DirectoryFits, DirectoryHeaderFits, SlotsFit, SlotStart, SliceEnd, Plus
<1>3. \A s, b : CMSAt(s, b)' = CMSAt(s, b)
  BY <1>1 DEF CMSAt
<1>4. \A s, b, j : PageFits(s, b, j)' = PageFits(s, b, j)
  BY DEF PageFits, PageEnd, PageStart
<1> QED
  BY <1>1, <1>2, <1>3, <1>4

(* Nor is what a signature is.                                             *)
LEMMA SignatureStays ==
    ASSUME UNCHANGED container
    PROVE  \A s : /\ Directories(s)' = Directories(s)
                  /\ Sound(s)' = Sound(s)
                  /\ CarriesCMS(s)' = CarriesCMS(s)
<1>1. \A s : Directories(s)' = Directories(s)
  BY SliceStays, BlobStays DEF Directories
<1>2. \A s : Sound(s)' = Sound(s)
  BY <1>1, SliceStays, BlobStays DEF Sound
<1>3. \A s : CarriesCMS(s)' = CarriesCMS(s)
  BY SliceStays, BlobStays DEF CarriesCMS
<1> QED
  BY <1>1, <1>2, <1>3

(* Nor is which slots lie over what.                                       *)
LEMMA TangledStays ==
    ASSUME UNCHANGED container
    PROVE  Compared' = Compared /\ Tangled' = Tangled
<1>1. Compared' = Compared
  BY SliceStays, SignatureStays, BlobStays DEF Compared, SlotsOf
<1>2. \A x, y : Disturbs(x, y)' = Disturbs(x, y)
  BY DEF Disturbs, Meet, SlotStart, PageStart, PageEnd, BlobStart, SigStart, Base, Blob, Slice
<1>3. \A x, y : Before(y, x)' = Before(y, x)
  BY DEF Before
<1> QED
  BY <1>1, <1>2, <1>3 DEF Tangled

(* The same of the slice in hand.                                          *)
LEMMA InHandStays ==
    ASSUME UNCHANGED <<container, si>>
    PROVE  /\ Signed(si)' = Signed(si)
           /\ Sound(si)' = Sound(si)
           /\ Directories(si)' = Directories(si)
           /\ \A b : /\ EntryFits(si, b)' = EntryFits(si, b)
                     /\ CMSAt(si, b)' = CMSAt(si, b)
                     /\ Fine(si, b)' = Fine(si, b)
                     /\ PassedBy(si, b)' = PassedBy(si, b)
<1> USE DEF Slice, Blob, Base, size, SigStart, SigEnd, BlobStart, CommandsEnd
<1>1. Signed(si)' = Signed(si)
  BY DEF Signed, HeaderFits, CommandsFit
<1>2. /\ \A b : EntryFits(si, b)' = EntryFits(si, b)
      /\ \A b : BlobFits(si, b)' = BlobFits(si, b)
  BY DEF EntryFits, EntryEnd, BlobFits
<1>3. \A b : CMSAt(si, b)' = CMSAt(si, b)
  BY <1>2 DEF CMSAt
<1>4. Directories(si)' = Directories(si)
  BY <1>2 DEF Directories
<1>5. \A b : Verifiable(si, b)' = Verifiable(si, b)
  BY DEF Verifiable, DirectoryFits, DirectoryHeaderFits, SlotsFit, SlotStart, SliceEnd, Plus
<1>6. \A b, j : PageFits(si, b, j)' = PageFits(si, b, j)
  BY DEF PageFits, PageEnd, PageStart
<1>7. SuperBlobParses(si)' = SuperBlobParses(si)
  BY DEF SuperBlobParses, SigFits
<1>8. Sound(si)' = Sound(si)
  BY <1>2, <1>4, <1>5, <1>6, <1>7 DEF Sound
<1>9. \A b : Fine(si, b)' = Fine(si, b)
  BY <1>2, <1>4, <1>5, <1>6 DEF Fine
<1>10. \A b : PassedBy(si, b)' = PassedBy(si, b)
  BY DEF PassedBy
<1> QED
  BY <1>1, <1>2, <1>3, <1>4, <1>8, <1>9, <1>10

-----------------------------------------------------------------------------
(* The slice a pass is done with.                                          *)

(* A load command that findSignature stops at ends the search: the slice   *)
(* is not signed.                                                          *)
LEMMA StopsUnsigned ==
    ASSUME FileInv, AtCommand, NoSignature, NEW s, s = si
    PROVE  ~Signed(s)
<1>1. SUFFICES ASSUME NEW j \in 1..Len(Slice(s).commands),
                      Slice(s).commands[j].signature,
                      Slice(s).commands[j].size >= LinkeditData,
                      \A e \in 1..j :
                         /\ Slice(s).commands[e].size >= LoadCommand
                         /\ Base(s) + Slice(s).commands[e].at + Slice(s).commands[e].size
                               <= CommandsEnd(s)
                         /\ e < j => ~Slice(s).commands[e].signature
               PROVE  FALSE
  BY DEF Signed
<1>2. /\ pc = "command" /\ ~CommandFits /\ n \in Nat \ {0}
      /\ container \in Containers /\ si \in Nat \ {0} /\ si <= Visits
  BY DEF NoSignature, FileInv, Typed, CheckedSoFar, AtSlice
<1>3. ~(j < n)
  <2>1. j < n => j \in 1..n-1
    BY <1>2
  <2> QED
    BY <1>1, <1>2, <2>1 DEF AtCommand, PassedBy
<1>4. n \in 1..j /\ n <= Len(Slice(si).commands)
  BY <1>2, <1>3
<1>5. lc = Base(si) + Command.at
  BY <1>2, <1>4 DEF AtCommand
<1>6. /\ Command.size >= LoadCommand
      /\ Base(si) + Command.at + Command.size <= CommandsEnd(si)
      /\ Command.signature => Command.size >= LinkeditData
  <2>1. n < j \/ n = j
    BY <1>4
  <2> QED
    BY <1>1, <1>4, <2>1 DEF Command
<1>7. Slice(si).commands \in Seq(CommandType)
  BY <1>2, SliceTyped DEF SliceType
<1>8. Command.size \in Nat /\ Command.at \in Nat
  <2>1. n \in 1..Len(Slice(si).commands)
    BY <1>2, <1>4, <1>7
  <2>2. Command \in CommandType
    BY <1>7, <2>1, SMT DEF Command
  <2> QED
    BY <2>2, SMT DEF CommandType
<1>9. CommandFits
  <2>1. Base(si) \in Nat /\ CommandsEnd(si) \in Nat /\ LoadCommand \in Nat
    BY <1>2, SliceNumbers, Sizes
  <2>2. /\ lc + LoadCommand <= lc + Command.size
        /\ lc + Command.size <= CommandsEnd(si)
        /\ lc + LoadCommand <= CommandsEnd(si)
    BY <1>5, <1>6, <1>8, <2>1
  <2> QED
    BY <1>4, <1>6, <2>2 DEF CommandFits, CommandStarts
<1> QED
  BY <1>2, <1>9

(* When an index entry does not fit, no later one does.                    *)
LEMMA LaterEntries ==
    ASSUME container \in Containers, NEW s \in Nat \ {0}, s <= Visits,
           NEW b \in Nat, NEW c \in Nat, b <= c, EntryFits(s, c)
    PROVE  EntryFits(s, b)
<1>1. b * BlobIndex <= c * BlobIndex /\ b * BlobIndex \in Nat /\ c * BlobIndex \in Nat
  BY Sizes, ProductMonotone, ProductNat
<1> QED
  BY <1>1, SliceNumbers, Sizes DEF EntryFits, EntryEnd

(* A slice without a signature is settled in every pass.                   *)
LEMMA UnsignedIsSettled ==
    ASSUME UNCHANGED container, NEW s, ~Signed(s)
    PROVE  Settled(s)'
<1>1. ~Signed(s)' /\ ~CarriesCMS(s)'
  BY SliceStays, SignatureStays DEF CarriesCMS
<1> QED
  BY <1>1 DEF Settled

(* The search for CMS blobs ended without one.                             *)
LEMMA NoCMSThere ==
    ASSUME FileInv, AtSignature, NoCMS, NEW s, s = si
    PROVE  ~CarriesCMS(s)
<1>1. SUFFICES ASSUME NEW b \in 1..Slice(s).count, CMSAt(s, b) PROVE FALSE
  BY DEF CarriesCMS
<1>2. /\ pc = "cms" /\ n \in Nat \ {0}
      /\ n <= Slice(s).count => ~EntryFits(s, n)
      /\ container \in Containers /\ s \in Nat \ {0} /\ s <= Visits
      /\ \A c \in 1..n-1 : ~CMSAt(s, c)
      /\ Slice(s).count \in Nat
  <2>1. /\ pc = "cms" /\ n \in Nat \ {0}
        /\ MoreEntries => ~EntryFits(si, n)
        /\ container \in Containers /\ si \in Nat \ {0} /\ si <= Visits
    BY DEF NoCMS, FileInv, Typed, CheckedSoFar, AtSlice
  <2> QED
    BY <2>1, SliceNumbers DEF MoreEntries, AtSignature
<1>3. ~(b < n)
  <2>1. b < n => b \in 1..n-1
    BY <1>2
  <2> QED
    BY <1>1, <1>2, <2>1
<1>4. n <= b /\ n <= Slice(s).count
  BY <1>2, <1>3
<1>5. EntryFits(s, b)
  BY <1>1 DEF CMSAt
<1>6. EntryFits(s, n)
  BY <1>2, <1>4, <1>5, LaterEntries
<1> QED
  BY <1>2, <1>4, <1>6

(* All blobs of a signature were taken without a doubt.                    *)
LEMMA TakenIsSound ==
    ASSUME FileInv, AtBlob, pc = "blob", ~MoreEntries, ~suspect, NEW s, s = si
    PROVE  /\ anyCD => Sound(s)
           /\ Clean => AllRight(s)
<1>1. /\ n \in Nat \ {0} /\ Slice(s).count \in Nat /\ n > Slice(s).count
      /\ SuperBlobParses(s)
  <2>1. /\ container \in Containers /\ si \in Nat \ {0} /\ si <= Visits
        /\ n \in Nat \ {0} /\ SuperBlobParses(si)
    BY DEF FileInv, Typed, CheckedSoFar, AtSlice
  <2> QED
    BY <2>1, SliceNumbers DEF MoreEntries
<1>2. \A b \in 1..Slice(s).count : b \in 1..n-1
  BY <1>1
<1>3. \A b \in 1..Slice(s).count : Fine(s, b) /\ (Clean => Right(s, b))
  BY <1>2 DEF AtBlob
<1>4. \A b \in Directories(s) : b \in 1..Slice(s).count
  BY DEF Directories
<1>5. ASSUME anyCD PROVE Sound(s)
  BY <1>1, <1>3, <1>4, <1>5 DEF AtBlob, Fine, Sound
<1>6. ASSUME Clean PROVE AllRight(s)
  BY <1>3, <1>4, <1>6 DEF Right, AllRight
<1> QED
  BY <1>5, <1>6

-----------------------------------------------------------------------------
(* Within a pass.                                                          *)

(* Within a pass the results only ever get worse.                          *)
LEMMA WithinAPass ==
    ASSUME Flags, SignersKnown, Next, Walking, Walking'
    PROVE  /\ UNCHANGED <<container, task, pass, verdict>>
           /\ kind' = "none" => kind = "none"
           /\ kind' # "cms" => kind # "cms"
           /\ hit => hit'
           /\ refused => refused'
<1> USE DEF inputVars, directoryVars, resultVars, Walking, AtSlice
<1>1. CASE SkipSlice \/ VisitSlice \/ ReadHeader \/ NoSignature \/ OtherCommand \/ CodeSignature
  BY <1>1 DEF SkipSlice, VisitSlice, ReadHeader, NoSignature, OtherCommand, CodeSignature
<1>2. CASE Unparsed \/ Parsed
  <2>1. kind' \in {kind, Strongest("adhoc")} /\ (hit => hit')
    BY <1>2 DEF Unparsed, Parsed, Flags
  <2>2. kind' # "none" \/ kind' = kind
    BY <2>1 DEF Strongest
  <2>3. kind' # "cms" => kind # "cms"
    BY <2>1 DEF Strongest
  <2> QED
    BY <1>2, <2>1, <2>2, <2>3 DEF Unparsed, Parsed
<1>3. CASE CMSFound
  <2>1. refused => refused'
    BY <1>3 DEF CMSFound, Refuses, SignersKnown
  <2>2. kind' \in {"cms", kind}
    BY <1>3 DEF CMSFound
  <2> QED
    BY <1>3, <2>1, <2>2 DEF CMSFound
<1>4. CASE NotCMS \/ NoCMS \/ BlobMissing \/ OtherBlob \/ CodeDirectory
  BY <1>4 DEF NotCMS, NoCMS, BlobMissing, OtherBlob, CodeDirectory
<1>5. CASE BadPage \/ EndDirectory
  BY <1>5 DEF BadPage, EndDirectory
<1>6. CASE EndSlice
  <2>1. hit => hit'
    BY <1>6, Zenon DEF EndSlice
  <2> QED
    BY <1>6, <2>1 DEF EndSlice
<1>7. CASE HashPage
  <2>1. hit => hit'
    BY <1>7, Zenon DEF HashPage
  <2> QED
    BY <1>7, <2>1 DEF HashPage
<1>8. NotMachO \/ Load \/ Plan \/ WalkContainer \/ Done => ~Walking
  BY DEF NotMachO, Load, Plan, WalkContainer, Done
<1>9. EndDetect \/ EndCheck \/ EndPrescan \/ EndRepair \/ EndRecheck \/ Overlaid => ~Walking'
  BY DEF Overlaid, EndDetect, EndCheck, EndPrescan, EndRepair, EndRecheck, Begin, Report
<1> QED
  BY <1>1, <1>2, <1>3, <1>4, <1>5, <1>6, <1>7, <1>8, <1>9 DEF Next

(* Only a repair makes a slot right, and then it has found one.            *)
LEMMA WrongStep ==
    ASSUME Next, wrong' # wrong
    PROVE  HashPage /\ pass = "repair" /\ hit'
<1> USE DEF resultVars
<1>1. NotMachO \/ Load \/ Plan \/ WalkContainer \/ SkipSlice \/ VisitSlice => wrong' = wrong
  BY DEF NotMachO, Load, Plan, WalkContainer, SkipSlice, VisitSlice
<1>2. ReadHeader \/ NoSignature \/ OtherCommand \/ CodeSignature => wrong' = wrong
  BY DEF ReadHeader, NoSignature, OtherCommand, CodeSignature
<1>3. Unparsed \/ Parsed \/ CMSFound \/ NotCMS \/ NoCMS => wrong' = wrong
  BY DEF Unparsed, Parsed, CMSFound, NotCMS, NoCMS
<1>4. BlobMissing \/ OtherBlob \/ CodeDirectory \/ BadPage \/ EndDirectory \/ EndSlice
          => wrong' = wrong
  BY DEF BlobMissing, OtherBlob, CodeDirectory, BadPage, EndDirectory, EndSlice
<1>5. EndDetect \/ EndCheck \/ EndPrescan \/ EndRepair \/ EndRecheck \/ Overlaid \/ Done
          => wrong' = wrong
  BY DEF Overlaid, EndDetect, EndCheck, EndPrescan, EndRepair, EndRecheck, Done, vars
<1>6. HashPage
  BY <1>1, <1>2, <1>3, <1>4, <1>5 DEF Next
<1>7. pass = "repair" /\ Current \in wrong
  BY <1>6 DEF HashPage, Rewrites
<1>8. hit'
  BY <1>6, <1>7, Zenon DEF HashPage
<1> QED
  BY <1>6, <1>7, <1>8

(* The slot in hand is one that is compared.                               *)
LEMMA CurrentCompared ==
    ASSUME FileInv, AtSignature, AtSlot, pc = "slot", MoreSlots, PageFits(si, n, i)
    PROVE  Current \in Compared
<1>1. /\ si \in InFile /\ Signed(si) /\ SuperBlobParses(si)
      /\ n \in Directories(si) /\ EntryFits(si, n) /\ Verifiable(si, n)
  BY VisitsTyped DEF FileInv, Typed, CheckedSoFar, AtSlice, AtSignature, AtSlot, InFile
<1>2. i \in 0..Blob(si, n).nCodeSlots - 1
  <2>1. i \in Nat /\ i < Blob(si, n).nCodeSlots /\ Blob(si, n).nCodeSlots \in Nat
    BY <1>1, BlobNumbers DEF FileInv, Typed, CheckedSoFar, AtSlice, MoreSlots, Directory,
                             SuperBlobParses
  <2> QED
    BY <2>1
<1>3. Current \in SlotsOf(si)
  BY <1>1, <1>2 DEF SlotsOf, Current
<1> QED
  BY <1>1, <1>3 DEF Compared

(* A slot that a pass has behind it, and that was right, stays so, unless  *)
(* the pass is a repair and the slots are tangled.                         *)
LEMMA RightStays ==
    ASSUME FileInv, Found, Next, Clean', NEW y \in Compared, Before(y, Current), y \notin wrong
    PROVE  y \notin wrong'
<1>1. CASE wrong' = wrong
  BY <1>1
<1>2. CASE wrong' # wrong
  <2>1. HashPage /\ hit' /\ pass' = pass
    BY <1>2, WrongStep DEF HashPage
  <2>2. ~Tangled
    <3>1. Tangled' = Tangled
      BY FlagsStep, TangledStays DEF FileInv
    <3> QED
      BY <2>1, <3>1 DEF Clean
  <2>3. Current \in Compared
    BY <2>1, CurrentCompared DEF HashPage, Found
  <2>4. ~Disturbs(Current, y)
    BY <2>2, <2>3 DEF Tangled
  <2> QED
    BY <2>1, <2>4, WrittenSlots
<1> QED
  BY <1>1, <1>2

(* So does a whole slice.                                                  *)
LEMMA SliceStaysRight ==
    ASSUME FileInv, Found, Next, Clean', NEW s \in InFile, s < si, Signed(s), Sound(s), AllRight(s)
    PROVE  AllRight(s)'
<1>1. UNCHANGED container
  BY FlagsStep DEF FileInv
<1>2. SUFFICES ASSUME NEW b \in Directories(s), NEW j \in 0..Blob(s, b).nCodeSlots - 1
               PROVE  <<s, b, j>> \notin wrong'
  BY <1>1, SignatureStays, BlobStays DEF AllRight
<1>3. <<s, b, j>> \in Compared
  <2>1. /\ SuperBlobParses(s) /\ EntryFits(s, b) /\ Verifiable(s, b) /\ PageFits(s, b, j)
    BY DEF Sound, Directories
  <2>2. <<s, b, j>> \in SlotsOf(s)
    BY <2>1 DEF SlotsOf
  <2> QED
    BY <2>1, <2>2 DEF Compared
<1>4. Before(<<s, b, j>>, Current)
  BY DEF Before, Current
<1>5. <<s, b, j>> \notin wrong
  BY DEF AllRight
<1> QED
  BY <1>3, <1>4, <1>5, RightStays

(* A slice that was settled stays so within a pass.                        *)
LEMMA SettledStays ==
    ASSUME FileInv, Found, Next, Walking, Walking', NEW s \in InFile, s < si, Settled(s)
    PROVE  Settled(s)'
<1>0. Flags /\ SignersKnown
  BY DEF FileInv, Found
<1>1. /\ UNCHANGED <<container, pass>>
      /\ kind' = "none" => kind = "none"
      /\ kind' # "cms" => kind # "cms"
      /\ hit => hit'
      /\ refused => refused'
  BY <1>0, WithinAPass
<1>2. /\ Signed(s)' = Signed(s) /\ CarriesCMS(s)' = CarriesCMS(s) /\ Sound(s)' = Sound(s)
      /\ Tangled' = Tangled
  BY <1>1, SliceStays, SignatureStays, TangledStays
<1>3. Clean' /\ Signed(s) /\ Sound(s) /\ AllRight(s) => AllRight(s)'
  BY SliceStaysRight
<1> QED
  BY <1>1, <1>2, <1>3 DEF Settled, Checking, Clean

(* So is the slice a pass has just done with.                              *)
LEMMA SettledNow ==
    ASSUME FileInv, Found, Next, AtSlice \/ (pc = "slice" /\ si <= Visits), pc' = "slice",
           NEW s \in InFile, s = si
    PROVE  Settled(s)'
<1>0. /\ Flags /\ SignersKnown /\ AtBlob /\ AtCommand /\ AtSignature /\ UNCHANGED container
      /\ UNCHANGED pass
  BY FlagsStep, WithinAPass DEF FileInv, Found, Walking
<1>1. /\ Signed(s)' = Signed(s) /\ CarriesCMS(s)' = CarriesCMS(s) /\ Sound(s)' = Sound(s)
      /\ wrong' = wrong => (AllRight(s)' = AllRight(s))
  BY <1>0, SliceStays, SignatureStays, BlobStays DEF AllRight
<1>2. CASE SkipSlice
  <2>1. refused /\ refused' /\ pass = "prescan"
    BY <1>0, <1>2 DEF SkipSlice, SignersKnown, InFile, resultVars
  <2> QED
    BY <1>0, <2>1 DEF Settled, Checking
<1>3. CASE ReadHeader
  <2>1. ~Signed(s)
    BY <1>3 DEF ReadHeader, Signed
  <2> QED
    BY <1>0, <2>1, UnsignedIsSettled
<1>4. CASE NoSignature
  BY <1>0, <1>4, StopsUnsigned, UnsignedIsSettled
<1>5. CASE Unparsed
  <2>1. ~Sound(s) /\ ~CarriesCMS(s)
    BY <1>5 DEF Unparsed, Sound, CarriesCMS
  <2>2. /\ pass = "detect" => kind' # "none"
        /\ Checking => hit'
    BY <1>0, <1>5 DEF Unparsed, Strongest, Checking, Flags
  <2> QED
    BY <1>0, <1>1, <2>1, <2>2 DEF Settled, Checking
<1>6. CASE CMSFound
  <2>1. pc = "cms" /\ CMSAt(s, n) /\ n \in 1..Slice(s).count
    <3>1. n \in Nat \ {0} /\ Slice(si).count \in Nat
      BY <1>6, SliceNumbers DEF CMSFound, FileInv, Typed, CheckedSoFar, AtSlice
    <3> QED
      BY <1>6, <3>1 DEF CMSFound, MoreEntries
  <2>2. CarriesCMS(s)
    BY <1>0, <1>6, <2>1 DEF CarriesCMS, AtSignature, FileInv, CheckedSoFar
  <2>3. pass \in {"detect", "prescan"}
    BY <1>0, <2>1, <2>2 DEF AtSignature, SignersKnown, NobodySigned
  <2>4. IF pass = "detect" THEN kind' = "cms" ELSE refused'
    BY <1>6, <2>3 DEF CMSFound, Refuses
  <2> QED
    BY <1>0, <2>3, <2>4 DEF Settled, Checking
<1>7. CASE NoCMS
  <2>1. ~CarriesCMS(s)
    BY <1>0, <1>7, NoCMSThere DEF FileInv
  <2>2. pass \in {"detect", "prescan"} /\ kind' = kind /\ (pass = "detect" => kind # "none")
    BY <1>0, <1>7 DEF NoCMS, AtSignature, resultVars
  <2> QED
    BY <1>0, <1>1, <2>1, <2>2 DEF Settled, Checking
<1>8. CASE EndSlice
  <2>1. /\ pc = "blob" /\ ~MoreEntries /\ wrong' = wrong
        /\ pass \in {"check", "repair", "recheck"}
    BY <1>0, <1>8 DEF EndSlice, resultVars, AtSignature
  <2>2. suspect => ~Sound(s)
    BY <1>0, <2>1 DEF AtBlob
  <2>3. CASE pass = "repair"
    <3>1. ~Tangled /\ Sound(s) => AllRight(s)
      BY <1>0, <2>1, <2>2, <2>3, TakenIsSound DEF Clean
    <3> QED
      BY <1>0, <1>1, <2>1, <2>3, <3>1, TangledStays DEF Settled, Checking
  <2>4. CASE Checking
    <3>1. ~hit' => ~hit /\ ~suspect /\ anyCD
      BY <1>8, <2>4, Zenon DEF EndSlice, Doubtful
    <3>2. ~hit' => Sound(s) /\ AllRight(s)
      BY <1>0, <2>1, <3>1, TakenIsSound DEF Clean
    <3> QED
      BY <1>0, <1>1, <2>1, <2>4, <3>2 DEF Settled, Checking
  <2> QED
    BY <2>1, <2>3, <2>4 DEF Checking
<1> QED
  BY <1>2, <1>3, <1>4, <1>5, <1>6, <1>7, <1>8
  DEF Next, AtSlice, NotMachO, Load, Plan, WalkContainer, VisitSlice, OtherCommand, CodeSignature,
      Parsed, NotCMS, BlobMissing, OtherBlob, CodeDirectory, BadPage, HashPage, Overlaid, EndDirectory,
      EndDetect, EndCheck, EndPrescan, EndRepair, EndRecheck, Walked, Done, Begin, Report

(* A step within a pass stays at its slice, goes on to the next one or,    *)
(* in a repair, meets a CMS signature.                                     *)
LEMMA WhereTo ==
    ASSUME Next, Walking, Walking'
    PROVE  \/ si' = si /\ (pc # "slice" \/ si <= Visits)
           \/ si' = si + 1 /\ pc' = "slice" /\ (AtSlice \/ (pc = "slice" /\ si <= Visits))
           \/ CMSFound /\ pass = "repair"
<1> DEFINE Stays == si' = si /\ (pc # "slice" \/ si <= Visits)
           Goes  == si' = si + 1 /\ pc' = "slice" /\ (AtSlice \/ (pc = "slice" /\ si <= Visits))
<1> USE DEF Walking, AtSlice, NextSlice
<1>1. SkipSlice \/ NoSignature \/ Unparsed \/ EndSlice => Goes
  BY DEF SkipSlice, NoSignature, Unparsed, EndSlice
<1>2. VisitSlice \/ OtherCommand \/ CodeSignature \/ Parsed \/ NotCMS => Stays
  BY DEF VisitSlice, OtherCommand, CodeSignature, Parsed, NotCMS
<1>3. ReadHeader => Stays \/ Goes
  BY DEF ReadHeader
<1>4. NoCMS => Stays \/ Goes
  BY DEF NoCMS
<1>5. CMSFound => Goes \/ pass = "repair"
  BY DEF CMSFound
<1>6. BlobMissing \/ OtherBlob \/ CodeDirectory \/ BadPage \/ HashPage \/ EndDirectory => Stays
  BY DEF BlobMissing, OtherBlob, CodeDirectory, BadPage, HashPage, EndDirectory
<1>7. NotMachO \/ Load \/ Plan \/ WalkContainer \/ Done => ~Walking
  BY DEF NotMachO, Load, Plan, WalkContainer, Done
<1>8. EndDetect \/ EndCheck \/ EndPrescan \/ EndRepair \/ EndRecheck \/ Overlaid => ~Walking'
  BY DEF Overlaid, EndDetect, EndCheck, EndPrescan, EndRepair, EndRecheck, Begin, Report
<1> HIDE DEF Stays, Goes
<1>9. Stays \/ Goes \/ (CMSFound /\ pass = "repair")
  BY <1>1, <1>2, <1>3, <1>4, <1>5, <1>6, <1>7, <1>8 DEF Next
<1> QED
  BY <1>9 DEF Stays, Goes

(* A CMS signature is never met by a repair: it was looked for before.     *)
LEMMA RepairMeetsNoCMS ==
    ASSUME FileInv, Found, CMSFound
    PROVE  pass \in {"detect", "prescan"} /\ si \in InFile /\ CarriesCMS(si)
<1>1. /\ pc = "cms" /\ CMSAt(si, n) /\ n \in 1..Slice(si).count
      /\ si \in Nat \ {0} /\ si <= Visits /\ Visited(si) /\ SuperBlobParses(si)
      /\ container \in Containers
  <2>1. /\ n \in Nat \ {0} /\ pc = "cms" /\ si \in Nat \ {0} /\ si <= Visits /\ Visited(si)
        /\ Slice(si).count \in Nat /\ SuperBlobParses(si) /\ container \in Containers
    BY SliceNumbers DEF CMSFound, FileInv, Typed, CheckedSoFar, AtSlice
  <2> QED
    BY <2>1 DEF CMSFound, MoreEntries
<1>2. CarriesCMS(si)
  BY <1>1 DEF CarriesCMS, Found, AtSignature
<1>3. si \in InFile
  BY <1>1, VisitsTyped DEF InFile
<1> QED
  BY <1>1, <1>2, <1>3 DEF Found, AtSignature, SignersKnown, NobodySigned

(* A pass begins with WalkContainer.                                       *)
LEMMA StartsWalking ==
    ASSUME Next, ~Walking, Walking'
    PROVE  WalkContainer
<1> USE DEF Walking, AtSlice
<1>1. ~(SkipSlice \/ VisitSlice \/ ReadHeader \/ NoSignature \/ OtherCommand \/ CodeSignature)
  BY DEF SkipSlice, VisitSlice, ReadHeader, NoSignature, OtherCommand, CodeSignature
<1>2. ~(Unparsed \/ Parsed \/ CMSFound \/ NotCMS \/ NoCMS)
  BY DEF Unparsed, Parsed, CMSFound, NotCMS, NoCMS
<1>3. ~(BlobMissing \/ OtherBlob \/ CodeDirectory \/ BadPage \/ HashPage \/ Overlaid
        \/ EndDirectory \/ EndSlice)
  BY DEF BlobMissing, OtherBlob, CodeDirectory, BadPage, HashPage, Overlaid, EndDirectory, EndSlice
<1>4. ~(EndDetect \/ EndCheck \/ EndPrescan \/ EndRepair \/ EndRecheck)
  BY DEF EndDetect, EndCheck, EndPrescan, EndRepair, EndRecheck, Walked
<1>5. ~(NotMachO \/ Load \/ Plan \/ Done)
  BY DEF NotMachO, Load, Plan, Done, vars, Begin, Report
<1> QED
  BY <1>1, <1>2, <1>3, <1>4, <1>5 DEF Next

(* Every step leaves settled what the pass is done with.                   *)
LEMMA BehindStep ==
    ASSUME FileInv, Found, Next
    PROVE  BehindIsSettled'
<1>1. SUFFICES ASSUME Walking', NEW s \in InFile, s < si' PROVE Settled(s)'
  BY FlagsStep, SliceStays DEF BehindIsSettled, FileInv
<1>2. /\ s \in Nat \ {0} /\ si \in Nat \ {0} /\ Flags /\ SignersKnown
      /\ Walking /\ s < si => Settled(s)
  BY VisitsTyped DEF InFile, FileInv, Typed, Found, BehindIsSettled
<1>3. CASE Walking
  <2>1. CASE s < si
    BY <1>1, <1>2, <1>3, <2>1, SettledStays DEF BehindIsSettled
  <2>2. CASE ~(s < si)
    <3>1. si' # si
      BY <1>1, <2>2
    <3>2. /\ s = si /\ pc' = "slice"
          /\ AtSlice \/ (pc = "slice" /\ si <= Visits)
      BY <1>1, <1>2, <1>3, <2>2, <3>1, WhereTo, RepairMeetsNoCMS
    <3> QED
      BY <3>2, SettledNow
  <2> QED
    BY <2>1, <2>2
<1>4. CASE ~Walking
  <2>1. WalkContainer
    BY <1>1, <1>4, StartsWalking
  <2> QED
    BY <1>1, <1>2, <2>1 DEF WalkContainer
<1> QED
  BY <1>3, <1>4

-----------------------------------------------------------------------------
(* Where a pass is.                                                        *)

(* Every step keeps what the search for a signature passed by.             *)
LEMMA AtCommandStep ==
    ASSUME FileInv, AtCommand, Next
    PROVE  AtCommand'
<1>0. /\ UNCHANGED container /\ container \in Containers
      /\ si \in Nat \ {0} /\ n \in Nat \ {0} /\ lc \in Nat
      /\ AtSlice => si <= Visits
  BY FlagsStep DEF FileInv, Typed, CheckedSoFar
<1>1. CASE ReadHeader
  <2>1. CASE pc' = "command"
    <3>1. /\ lc' = Base(si) + Slice(si).header /\ n' = 1 /\ si' = si
          /\ si <= Visits
      BY <1>0, <1>1, <2>1 DEF ReadHeader, NextSlice, AtSlice
    <3>2. Len(Slice(si).commands) >= 1 => Slice(si).commands[1].at = Slice(si).header
      <4>1. si \in 1..Len(container.slices)
        BY <1>0, <3>1, VisitsTyped, ContainerTyped DEF ContainerType
      <4>2. \A j \in 1..Len(Slice(si).commands) :
                Slice(si).commands[j].at =
                   IF j = 1 THEN Slice(si).header
                   ELSE Slice(si).commands[j - 1].at + Slice(si).commands[j - 1].size
        BY <1>0, <4>1, ContainersAssumption DEF Slice
      <4>3. Slice(si).commands \in Seq(CommandType)
        BY <1>0, <3>1, SliceTyped, SMT DEF SliceType
      <4>4. Len(Slice(si).commands) >= 1 => 1 \in 1..Len(Slice(si).commands)
        BY <4>3
      <4> QED
        BY <4>2, <4>4
    <3>3. Slice(si)' = Slice(si) /\ Base(si)' = Base(si)
      BY <1>0, <3>1 DEF Slice, Base
    <3> QED
      BY <1>0, <3>1, <3>2, <3>3 DEF AtCommand, Command
  <2> QED
    BY <2>1 DEF AtCommand
<1>2. CASE OtherCommand
  <2>1. /\ pc = "command" /\ si' = si /\ n' = n + 1 /\ lc' = lc + Command.size
        /\ CommandFits /\ ~Command.signature /\ si <= Visits
        /\ n \in 1..Len(Slice(si).commands)
    <3>1. Slice(si).commands \in Seq(CommandType) /\ si <= Visits
      BY <1>0, <1>2, SliceTyped DEF SliceType, OtherCommand, AtSlice
    <3> QED
      BY <1>0, <1>2, <3>1 DEF OtherCommand, CommandFits, CommandStarts
  <2>2. Command \in CommandType
    BY <1>0, <2>1, CommandTyped DEF CommandFits
  <2>3. lc = Base(si) + Command.at /\ Base(si) \in Nat /\ Command.at \in Nat /\ Command.size \in Nat
    BY <1>0, <2>1, <2>2, SliceNumbers DEF AtCommand, CommandType
  <2>4. PassedBy(si, n)
    BY <2>1, <2>3 DEF PassedBy, CommandFits, Command
  <2>5. n + 1 <= Len(Slice(si).commands) =>
           Slice(si).commands[n + 1].at = Command.at + Command.size
    <3>1. si \in 1..Len(container.slices)
      BY <1>0, <2>1, VisitsTyped, ContainerTyped DEF ContainerType
    <3>2. n + 1 <= Len(Slice(si).commands) => n + 1 \in 1..Len(Slice(si).commands) /\ n + 1 # 1
      BY <2>1
    <3>3. \A j \in 1..Len(Slice(si).commands) :
              Slice(si).commands[j].at =
                 IF j = 1 THEN Slice(si).header
                 ELSE Slice(si).commands[j - 1].at + Slice(si).commands[j - 1].size
      BY <1>0, <3>1, ContainersAssumption DEF Slice
    <3>4. (n + 1) - 1 = n
      BY <2>1
    <3> QED
      BY <3>2, <3>3, <3>4 DEF Command
  <2>6. /\ Slice(si)' = Slice(si) /\ Base(si)' = Base(si)
        /\ \A e : PassedBy(si, e)' = PassedBy(si, e)
    BY <1>0, <2>1, InHandStays DEF Slice, Base
  <2>7. \A e \in 1..n : PassedBy(si, e)
    <3>1. \A e \in 1..n : e = n \/ e \in 1..n-1
      BY <2>1
    <3> QED
      BY <2>1, <2>4, <3>1 DEF AtCommand
  <2>8. n' - 1 = n /\ n' = n + 1
    BY <2>1
  <2>9. n' <= Len(Slice(si)'.commands) => lc' = Base(si)' + Slice(si)'.commands[n'].at
    <3>1. lc' = Base(si) + (Command.at + Command.size)
      BY <2>1, <2>3
    <3> QED
      BY <2>5, <2>6, <2>8, <3>1
  <2> QED
    BY <2>6, <2>7, <2>8, <2>9 DEF AtCommand, Command
<1>3. CASE UNCHANGED vars
  BY <1>3, InHandStays DEF vars, AtCommand, Command, Slice, Base
<1>4. CASE pc' # "command"
  BY <1>4 DEF AtCommand
<1> QED
  BY <1>1, <1>2, <1>3, <1>4
  DEF Next, NotMachO, Load, Plan, WalkContainer, SkipSlice, VisitSlice, NoSignature, CodeSignature,
      Unparsed, Parsed, CMSFound, NotCMS, NoCMS, BlobMissing, OtherBlob, CodeDirectory, BadPage,
      HashPage, Overlaid, EndDirectory, EndSlice, EndDetect, EndCheck, EndPrescan, EndRepair, EndRecheck,
      Done, Begin, Report, NextSlice

(* The load command that findSignature stops at makes a slice signed.      *)
LEMMA CommandSigns ==
    ASSUME FileInv, AtCommand, CodeSignature
    PROVE  Signed(si)
<1>1. /\ pc = "command" /\ CommandFits /\ Command.signature
      /\ container \in Containers /\ si \in Nat \ {0} /\ si <= Visits /\ n \in Nat \ {0}
      /\ HeaderFits(si) /\ CommandsFit(si)
  BY DEF CodeSignature, FileInv, Typed, CheckedSoFar, AtSlice
<1>2. n \in 1..Len(Slice(si).commands) /\ Slice(si).commands \in Seq(CommandType)
  <2>1. Slice(si).commands \in Seq(CommandType)
    BY <1>1, SliceTyped, SMT DEF SliceType
  <2> QED
    BY <1>1, <2>1 DEF CommandFits, CommandStarts
<1>3. lc = Base(si) + Command.at
  BY <1>1, <1>2 DEF AtCommand
<1>4. /\ Command.size >= LoadCommand /\ Command.size >= LinkeditData
      /\ Base(si) + Command.at + Command.size <= CommandsEnd(si)
  BY <1>1, <1>3 DEF CommandFits
<1>5. ASSUME NEW e \in 1..n
      PROVE  /\ Slice(si).commands[e].size >= LoadCommand
             /\ Base(si) + Slice(si).commands[e].at + Slice(si).commands[e].size
                   <= CommandsEnd(si)
             /\ e < n => ~Slice(si).commands[e].signature
  <2>1. CASE e = n
    BY <1>1, <1>4, <2>1 DEF Command
  <2>2. CASE e # n
    <3>1. e \in 1..n-1
      BY <1>1, <2>2
    <3> QED
      BY <1>1, <3>1 DEF AtCommand, PassedBy
  <2> QED
    BY <2>1, <2>2
<1> QED
  BY <1>1, <1>2, <1>4, <1>5 DEF Signed, Command

(* Every step keeps what is known of the slice a pass looks into.          *)
LEMMA AtSignatureStep ==
    ASSUME FileInv, AtCommand, AtSignature, Next
    PROVE  AtSignature'
<1>0. UNCHANGED container /\ Typed
  BY FlagsStep DEF FileInv
<1>1. CASE pc' \notin {"super", "cms", "blob", "slot"}
  BY <1>1 DEF AtSignature
<1>2. CASE CodeSignature
  <2>1. Signed(si) /\ si' = si /\ pc' = "super"
    BY <1>2, CommandSigns DEF CodeSignature
  <2> QED
    BY <1>0, <2>1, InHandStays DEF AtSignature
<1>3. CASE Parsed
  <2>1. /\ Signed(si) /\ si' = si /\ n' = 1 /\ pass' = pass
        /\ pc' = IF Checking THEN "blob" ELSE "cms"
        /\ ~suspect' /\ ~anyCD'
        /\ pass = "detect" => kind' # "none"
    BY <1>3 DEF AtSignature, Parsed, Strongest
  <2>2. pass \in Passes
    BY <1>0 DEF Typed
  <2> QED
    BY <1>0, <2>1, <2>2, InHandStays DEF AtSignature, Checking, Passes
<1>4. CASE NotCMS
  <2>1. /\ Signed(si) /\ si' = si /\ n' = n + 1 /\ pc' = "cms" /\ pc = "cms"
        /\ UNCHANGED <<pass, kind, suspect, anyCD>>
        /\ EntryFits(si, n) /\ ~CMSAt(si, n) /\ n \in Nat \ {0}
    BY <1>0, <1>4 DEF AtSignature, NotCMS, Typed, resultVars, directoryVars
  <2>2. \A b \in 1..n'-1 : b = n \/ b \in 1..n-1
    BY <2>1
  <2>3. \A b \in 1..n'-1 : EntryFits(si, b) /\ ~CMSAt(si, b)
    BY <2>1, <2>2 DEF AtSignature
  <2> QED
    BY <1>0, <2>1, <2>3, InHandStays DEF AtSignature
<1>5. CASE NoCMS
  <2>1. /\ pc = "cms" /\ pass' = pass
        /\ pc' = "slice" \/ (pc' = "blob" /\ pass = "repair" /\ si' = si)
    BY <1>5 DEF NoCMS, NextSlice
  <2> QED
    BY <1>0, <2>1, InHandStays DEF AtSignature
<1>6. CASE BlobMissing \/ OtherBlob \/ CodeDirectory \/ BadPage \/ HashPage \/ EndDirectory
  <2>1. /\ pc \in {"blob", "slot"} /\ pc' \in {"blob", "slot"}
        /\ UNCHANGED <<si, pass>>
    BY <1>6 DEF BlobMissing, OtherBlob, CodeDirectory, BadPage, HashPage, EndDirectory
  <2> QED
    BY <1>0, <2>1, InHandStays DEF AtSignature
<1>7. SkipSlice \/ VisitSlice \/ ReadHeader \/ NoSignature \/ OtherCommand
          => pc' \notin {"super", "cms", "blob", "slot"}
  BY DEF SkipSlice, VisitSlice, ReadHeader, NoSignature, OtherCommand, NextSlice
<1>8. Unparsed \/ CMSFound \/ EndSlice => pc' \notin {"super", "cms", "blob", "slot"}
  BY DEF Unparsed, CMSFound, EndSlice, NextSlice
<1>9. NotMachO \/ Load \/ Plan \/ WalkContainer \/ Done
          => pc' \notin {"super", "cms", "blob", "slot"}
  BY DEF NotMachO, Load, Plan, WalkContainer, Done, vars, Begin, Report
<1>10. EndDetect \/ EndCheck \/ EndPrescan \/ EndRepair \/ EndRecheck \/ Overlaid
          => pc' \notin {"super", "cms", "blob", "slot"}
  BY DEF Overlaid, EndDetect, EndCheck, EndPrescan, EndRepair, EndRecheck, Walked, Begin, Report
<1> QED
  BY <1>1, <1>2, <1>3, <1>4, <1>5, <1>6, <1>7, <1>8, <1>9, <1>10 DEF Next

(* What was right of the slice in hand stays so.                           *)
LEMMA RightInHand ==
    ASSUME UNCHANGED <<container, si, wrong>>
    PROVE  \A b : Right(si, b)' = Right(si, b)
<1>1. Directories(si)' = Directories(si) /\ \A b : Blob(si, b)' = Blob(si, b)
  BY InHandStays DEF Blob, Slice
<1> QED
  BY <1>1 DEF Right

(* The blob in hand is one of the signature's.                             *)
LEMMA BlobInHand ==
    ASSUME FileInv, pc \in {"blob", "slot"}, pc = "blob" => MoreEntries
    PROVE  /\ container \in Containers /\ SuperBlobParses(si)
           /\ si \in Nat \ {0} /\ si <= Visits
           /\ n \in 1..Slice(si).count /\ n \in Nat \ {0}
           /\ i \in Nat
           /\ Blob(si, n).nCodeSlots \in Nat
<1>1. /\ container \in Containers /\ SuperBlobParses(si)
      /\ si \in Nat \ {0} /\ si <= Visits /\ n \in Nat \ {0} /\ i \in Nat
      /\ n <= Slice(si).count
  BY DEF FileInv, Typed, CheckedSoFar, AtSlice, MoreEntries
<1>2. Slice(si).count \in Nat /\ Slice(si).count <= MaxBlobs
  BY <1>1, SliceNumbers DEF SuperBlobParses
<1>3. Blob(si, n).nCodeSlots \in Nat
  BY <1>1, <1>2, BlobNumbers
<1> QED
  BY <1>1, <1>2, <1>3

(* Also while slots of another blob are repaired.                          *)
LEMMA BlobsStayRight ==
    ASSUME FileInv, Found, HashPage, Clean', NEW b \in 1..n-1, Fine(si, b), Right(si, b)
    PROVE  Right(si, b)'
<1>1. UNCHANGED container /\ si' = si /\ n \in Nat \ {0} /\ Next
  BY FlagsStep DEF FileInv, Typed, HashPage, Next
<1>2. SUFFICES ASSUME b \in Directories(si), NEW j \in 0..Blob(si, b).nCodeSlots - 1
               PROVE  <<si, b, j>> \notin wrong'
  BY <1>1, InHandStays DEF Right, Blob, Slice
<1>3. <<si, b, j>> \in Compared
  <2>1. /\ si \in InFile /\ Signed(si) /\ SuperBlobParses(si)
    BY VisitsTyped
    DEF HashPage, FileInv, Typed, Found, CheckedSoFar, AtSlice, AtSignature, InFile
  <2>2. <<si, b, j>> \in SlotsOf(si)
    BY <1>2 DEF SlotsOf, Fine
  <2> QED
    BY <2>1, <2>2 DEF Compared
<1>4. Before(<<si, b, j>>, Current)
  BY <1>1 DEF Before, Current
<1> QED
  BY <1>1, <1>2, <1>3, <1>4, RightStays DEF Right

(* Taking another blob or slot of the slice in hand leaves what was found  *)
(* of the blobs before.                                                    *)
LEMMA BlobsBefore ==
    ASSUME FileInv, Found, pc \in {"blob", "slot"}, UNCHANGED <<container, si, pass>>,
           hit => hit', wrong' = wrong \/ HashPage, anyCD => anyCD', suspect => suspect',
           ~suspect'
    PROVE  \A b \in 1..n-1 : /\ Fine(si, b)'
                             /\ b \in Directories(si)' => anyCD'
                             /\ Clean' => Right(si, b)'
<1>1. Clean' => Clean
  BY TangledStays DEF Clean
<1>2. \A b \in 1..n-1 : Fine(si, b) /\ (b \in Directories(si) => anyCD) /\ (Clean => Right(si, b))
  BY DEF Found, AtBlob
<1>3. \A b \in 1..n-1 : Clean' /\ Right(si, b) => Right(si, b)'
  BY <1>2, RightInHand, BlobsStayRight
<1> QED
  BY <1>1, <1>2, <1>3, InHandStays

(* Every step keeps what is known of the blobs taken so far.               *)
LEMMA AtBlobStep ==
    ASSUME FileInv, Found, Next
    PROVE  AtBlob'
<1>0. /\ UNCHANGED container /\ Flags /\ n \in Nat \ {0}
      /\ AtSignature /\ AtBlob /\ AtSlot
  BY FlagsStep DEF FileInv, Typed, Found
<1>1. CASE pc' \notin {"blob", "slot"}
  BY <1>1 DEF AtBlob
<1>2. CASE n' = 1 /\ ~suspect' /\ ~anyCD'
  BY <1>2 DEF AtBlob
<1>3. Parsed => n' = 1 /\ ~suspect' /\ ~anyCD'
  BY DEF Parsed
<1>4. NoCMS => pc' \notin {"blob", "slot"} \/ (n' = 1 /\ ~suspect' /\ ~anyCD')
  BY <1>0 DEF NoCMS, NextSlice, AtSignature, directoryVars
<1>5. CASE BlobMissing
  <2>1. pc = "blob" /\ ~EntryFits(si, n) /\ suspect' /\ UNCHANGED <<si, anyCD>>
    BY <1>5 DEF BlobMissing
  <2>2. ~Sound(si)
    BY <1>5, <2>1, BlobInHand DEF Sound, BlobMissing
  <2> QED
    BY <1>0, <2>1, <2>2, InHandStays DEF AtBlob
<1>6. CASE OtherBlob
  <2>1. /\ pc = "blob" /\ pc' = "blob" /\ EntryFits(si, n) /\ n' = n + 1 /\ MoreEntries
        /\ UNCHANGED <<si, pass, anyCD, hit, wrong>>
        /\ n \in Directories(si) => FALSE
    BY <1>6 DEF OtherBlob, resultVars, Directories, Directory
  <2>2. suspect' <=> suspect \/ ~BlobFits(si, n)
    BY <1>6, Zenon DEF OtherBlob
  <2>3. ~BlobFits(si, n) => ~Sound(si)
    BY <1>6, <2>1, BlobInHand DEF Sound
  <2>4. suspect' => ~Sound(si)'
    BY <1>0, <2>1, <2>2, <2>3, InHandStays DEF AtBlob
  <2>5. ASSUME ~suspect', NEW b \in 1..n'-1
        PROVE  /\ Fine(si, b)'
               /\ b \in Directories(si)' => anyCD'
               /\ Clean' => Right(si, b)'
    <3>1. CASE b \in 1..n-1
      BY <1>0, <2>1, <2>2, <2>5, <3>1, BlobsBefore
    <3>2. CASE b = n
      <4>1. Fine(si, b) /\ b \notin Directories(si) /\ Right(si, b)
        BY <2>1, <2>2, <2>5, <3>2 DEF Fine, Right
      <4> QED
        BY <1>0, <2>1, <4>1, InHandStays, RightInHand
    <3> QED
      BY <1>0, <2>1, <3>1, <3>2
  <2>6. anyCD' => Directories(si)' # {}
    BY <1>0, <2>1, InHandStays DEF AtBlob
  <2> QED
    BY <2>4, <2>5, <2>6 DEF AtBlob
<1>7. CASE CodeDirectory
  <2>1. /\ pc = "blob" /\ MoreEntries /\ anyCD' /\ BlobFits(si, n)
        /\ Directory.magic = "directory" /\ UNCHANGED <<si, pass, hit, wrong>>
    BY <1>7 DEF CodeDirectory, resultVars
  <2>2. n \in Directories(si)
    BY <2>1, BlobInHand DEF Directories, Directory
  <2>3. CASE Verifiable(si, n)
    <3>1. n' = n /\ suspect' = suspect
      BY <1>7, <2>3 DEF CodeDirectory
    <3>2. suspect' => ~Sound(si)'
      BY <1>0, <2>1, <3>1, InHandStays DEF AtBlob
    <3>3. Directories(si)' # {}
      BY <1>0, <2>1, <2>2, InHandStays
    <3>4. ~suspect' => \A b \in 1..n'-1 : /\ Fine(si, b)'
                                          /\ b \in Directories(si)' => anyCD'
                                          /\ Clean' => Right(si, b)'
      BY <1>0, <2>1, <3>1, BlobsBefore
    <3> QED
      BY <3>2, <3>3, <3>4 DEF AtBlob
  <2>4. CASE ~Verifiable(si, n)
    <3>1. suspect' /\ ~Sound(si)
      BY <1>7, <2>2, <2>4 DEF CodeDirectory, Sound
    <3> QED
      BY <1>0, <2>1, <2>2, <3>1, InHandStays DEF AtBlob
  <2> QED
    BY <2>3, <2>4
<1>8. CASE BadPage
  <2>1. /\ pc = "slot" /\ suspect' /\ UNCHANGED <<si, anyCD>>
        /\ ~PageFits(si, n, i) /\ i < Blob(si, n).nCodeSlots /\ n \in Directories(si)
    BY <1>0, <1>8 DEF BadPage, MoreSlots, Directory, AtSlot
  <2>2. i \in 0..Blob(si, n).nCodeSlots - 1
    BY <2>1, BlobInHand
  <2>3. ~Sound(si)
    BY <2>1, <2>2 DEF Sound
  <2> QED
    BY <1>0, <2>1, <2>3, InHandStays DEF AtBlob
<1>9. CASE HashPage
  <2>1. /\ pc = "slot" /\ UNCHANGED <<si, n, pass, suspect, anyCD>>
    BY <1>9 DEF HashPage, directoryVars
  <2>2. hit => hit'
    BY <1>9, Zenon DEF HashPage
  <2>3. ~suspect' => \A b \in 1..n'-1 : /\ Fine(si, b)'
                                        /\ b \in Directories(si)' => anyCD'
                                        /\ Clean' => Right(si, b)'
    BY <1>0, <1>9, <2>1, <2>2, BlobsBefore
  <2> QED
    BY <1>0, <2>1, <2>3, InHandStays DEF AtBlob
<1>10. CASE EndDirectory
  <2>1. /\ pc = "slot" /\ pc' = "blob" /\ n' = n + 1 /\ ~(i < Blob(si, n).nCodeSlots)
        /\ UNCHANGED <<si, pass, hit, wrong, suspect, anyCD>>
        /\ n \in Directories(si) /\ anyCD
    BY <1>0, <1>10 DEF EndDirectory, MoreSlots, Directory, AtSlot, directoryVars, resultVars
  <2>2. /\ i = Blob(si, n).nCodeSlots
        /\ EntryFits(si, n) /\ BlobFits(si, n) /\ Verifiable(si, n)
    <3>1. i <= Blob(si, n).nCodeSlots /\ EntryFits(si, n) /\ BlobFits(si, n) /\ Verifiable(si, n)
      BY <2>1 DEF FileInv, CheckedSoFar, Directory
    <3> QED
      BY <2>1, <3>1, BlobInHand
  <2>3. ASSUME ~suspect', NEW b \in 1..n'-1
        PROVE  /\ Fine(si, b)'
               /\ b \in Directories(si)' => anyCD'
               /\ Clean' => Right(si, b)'
    <3>1. CASE b \in 1..n-1
      BY <1>0, <2>1, <2>3, <3>1, BlobsBefore
    <3>2. CASE b = n
      <4>1. Fine(si, n) /\ (Clean => Right(si, n))
        BY <1>0, <2>1, <2>2, <2>3 DEF AtSlot, Fine, Right
      <4> QED
        BY <1>0, <2>1, <3>2, <4>1, InHandStays, RightInHand, TangledStays DEF Clean
    <3> QED
      BY <1>0, <2>1, <3>1, <3>2
  <2>4. (suspect' => ~Sound(si)') /\ (anyCD' => Directories(si)' # {})
    BY <1>0, <2>1, InHandStays DEF AtBlob
  <2> QED
    BY <2>3, <2>4 DEF AtBlob
<1>11. SkipSlice \/ VisitSlice \/ ReadHeader \/ NoSignature \/ OtherCommand \/ CodeSignature
          => pc' \notin {"blob", "slot"}
  BY DEF SkipSlice, VisitSlice, ReadHeader, NoSignature, OtherCommand, CodeSignature, NextSlice
<1>12. Unparsed \/ CMSFound \/ NotCMS \/ EndSlice => pc' \notin {"blob", "slot"}
  BY DEF Unparsed, CMSFound, NotCMS, EndSlice, NextSlice
<1>13. NotMachO \/ Load \/ Plan \/ WalkContainer \/ Done => pc' \notin {"blob", "slot"}
  BY DEF NotMachO, Load, Plan, WalkContainer, Done, vars, Begin, Report
<1>14. EndDetect \/ EndCheck \/ EndPrescan \/ EndRepair \/ EndRecheck \/ Overlaid
          => pc' \notin {"blob", "slot"}
  BY DEF Overlaid, EndDetect, EndCheck, EndPrescan, EndRepair, EndRecheck, Walked, Begin, Report
<1> QED
  BY <1>1, <1>2, <1>3, <1>4, <1>5, <1>6, <1>7, <1>8, <1>9, <1>10, <1>11, <1>12, <1>13, <1>14
  DEF Next

(* Every step keeps what is known of the slots taken so far.               *)
LEMMA AtSlotStep ==
    ASSUME FileInv, Found, Next
    PROVE  AtSlot'
<1>0. UNCHANGED container /\ Flags /\ AtSlot
  BY FlagsStep DEF FileInv, Found
<1>1. CASE pc' # "slot"
  BY <1>1 DEF AtSlot
<1>2. CASE CodeDirectory
  <2>1. CASE Verifiable(si, n)
    <3>1. /\ pc = "blob" /\ MoreEntries /\ anyCD' /\ BlobFits(si, n) /\ i' = 0
          /\ Directory.magic = "directory" /\ UNCHANGED <<si, n>>
      BY <1>2, <2>1 DEF CodeDirectory
    <3>2. n \in Directories(si)
      BY <3>1, BlobInHand DEF Directories, Directory
    <3>3. n' \in Directories(si)'
      BY <1>0, <3>1, <3>2, InHandStays
    <3> QED
      BY <3>1, <3>3 DEF AtSlot
  <2>2. CASE ~Verifiable(si, n)
    BY <1>1, <1>2, <2>2 DEF CodeDirectory
  <2> QED
    BY <2>1, <2>2
<1>3. CASE BadPage
  <2>1. pc = "slot" /\ suspect' /\ UNCHANGED <<si, n, anyCD>>
    BY <1>3 DEF BadPage
  <2> QED
    BY <1>0, <2>1, InHandStays DEF AtSlot
<1>4. CASE HashPage
  <2>1. /\ pc = "slot" /\ i' = i + 1 /\ PageFits(si, n, i) /\ MoreSlots
        /\ UNCHANGED <<si, n, pass, suspect, anyCD>>
    BY <1>4 DEF HashPage, directoryVars
  <2>2. ~hit' => ~hit /\ Current \notin wrong
    BY <1>4, Zenon DEF HashPage
  <2>3. n \in Directories(si) /\ anyCD /\ i \in Nat
    BY <1>0, <2>1, BlobInHand DEF AtSlot
  <2>4. Clean' => Clean
    BY <1>0, <2>1, <2>2, TangledStays DEF Clean
  <2>5. Clean' => Current \notin wrong'
    <3>1. CASE ~hit'
      BY <1>4, <2>2, <3>1, WrittenSlots DEF Rewrites
    <3>2. CASE pass = "repair" /\ ~Tangled
      <4>1. Current \in Compared
        BY <2>1, CurrentCompared DEF Found
      <4>2. ~Disturbs(Current, Current)
        BY <3>2, <4>1 DEF Tangled
      <4> QED
        BY <1>4, <3>2, <4>2, WrittenSlots DEF Rewrites
    <3> QED
      BY <1>0, <2>1, <3>1, <3>2, TangledStays DEF Clean
  <2>6. ASSUME ~suspect, NEW j \in 0..i'-1
        PROVE  /\ PageFits(si, n, j)
               /\ Clean' => <<si, n, j>> \notin wrong'
    <3>1. CASE j = i
      BY <2>1, <2>5, <3>1 DEF Current
    <3>2. CASE j \in 0..i-1
      <4>1. PageFits(si, n, j) /\ (Clean => <<si, n, j>> \notin wrong)
        BY <1>0, <2>1, <2>6, <3>2 DEF AtSlot
      <4>2. <<si, n, j>> \in Compared
        <5>1. /\ si \in InFile /\ Signed(si) /\ SuperBlobParses(si)
              /\ EntryFits(si, n) /\ Verifiable(si, n)
          BY <2>1, VisitsTyped
          DEF FileInv, Typed, Found, CheckedSoFar, AtSlice, AtSignature, InFile
        <5>2. j \in 0..Blob(si, n).nCodeSlots - 1
          <6>1. i < Blob(si, n).nCodeSlots /\ Blob(si, n).nCodeSlots \in Nat
            BY <2>1, BlobInHand DEF MoreSlots, Directory
          <6> QED
            BY <2>3, <3>2, <6>1
        <5>3. <<si, n, j>> \in SlotsOf(si)
          BY <2>3, <4>1, <5>1, <5>2 DEF SlotsOf
        <5> QED
          BY <5>1, <5>3 DEF Compared
      <4>3. Before(<<si, n, j>>, Current)
        BY <2>3, <3>2 DEF Before, Current
      <4> QED
        BY <2>4, <4>1, <4>2, <4>3, RightStays
    <3> QED
      BY <2>1, <2>3, <3>1, <3>2
  <2>7. n' \in Directories(si)' /\ \A j : PageFits(si, n, j)' = PageFits(si, n, j)
    BY <1>0, <2>1, <2>3, InHandStays
    DEF PageFits, PageEnd, PageStart, Base, Blob, Slice, size
  <2> QED
    BY <2>1, <2>3, <2>6, <2>7 DEF AtSlot
<1>5. SkipSlice \/ VisitSlice \/ ReadHeader \/ NoSignature \/ OtherCommand \/ CodeSignature
          => pc' # "slot"
  BY DEF SkipSlice, VisitSlice, ReadHeader, NoSignature, OtherCommand, CodeSignature, NextSlice
<1>6. Unparsed \/ Parsed \/ CMSFound \/ NotCMS \/ NoCMS => pc' # "slot"
  BY DEF Unparsed, Parsed, CMSFound, NotCMS, NoCMS, NextSlice
<1>7. BlobMissing \/ OtherBlob \/ EndDirectory \/ EndSlice => pc' # "slot"
  BY DEF BlobMissing, OtherBlob, EndDirectory, EndSlice, NextSlice
<1>8. NotMachO \/ Load \/ Plan \/ WalkContainer \/ Done => pc' # "slot"
  BY DEF NotMachO, Load, Plan, WalkContainer, Done, vars, Begin, Report
<1>9. EndDetect \/ EndCheck \/ EndPrescan \/ EndRepair \/ EndRecheck \/ Overlaid => pc' # "slot"
  BY DEF Overlaid, EndDetect, EndCheck, EndPrescan, EndRepair, EndRecheck, Walked, Begin, Report
<1> QED
  BY <1>1, <1>2, <1>3, <1>4, <1>5, <1>6, <1>7, <1>8, <1>9 DEF Next

-----------------------------------------------------------------------------
(* What one pass leaves to the next.                                       *)

(* When a pass is over it has settled every slice of the file.             *)
LEMMA AllSettled ==
    ASSUME FileInv, BehindIsSettled, pc = "slice", si > Visits, NEW s \in InFile
    PROVE  Settled(s)
<1>1. s < si
  BY VisitsTyped DEF InFile, FileInv, Typed
<1> QED
  BY <1>1 DEF BehindIsSettled, Walking

(* Every step keeps what is known of who signed the file.                 *)
LEMMA SignersStep ==
    ASSUME FileInv, Found, Next
    PROVE  SignersKnown'
<1>0. /\ UNCHANGED container /\ SignersKnown /\ BehindIsSettled /\ Typed /\ Flags
      /\ NobodySigned' = NobodySigned
  <2>1. UNCHANGED container
    BY FlagsStep DEF FileInv
  <2> QED
    BY <2>1, SliceStays, SignatureStays DEF FileInv, Found, NobodySigned
<1> USE DEF inputVars, directoryVars, resultVars
<1>1. CASE /\ UNCHANGED <<task, pass, refused, wrong, verdict>>
           /\ pass # "detect" => kind' = kind
           /\ pc # "open" /\ pc # "done" /\ pc' # "open"
  BY <1>0, <1>1 DEF SignersKnown
<1>2. CASE SkipSlice \/ VisitSlice \/ WalkContainer
  BY <1>1, <1>2 DEF SkipSlice, VisitSlice, WalkContainer, NextSlice
<1>3. CASE ReadHeader \/ NoSignature \/ OtherCommand \/ CodeSignature
  BY <1>1, <1>3 DEF ReadHeader, NoSignature, OtherCommand, CodeSignature, NextSlice
<1>4. CASE Unparsed \/ Parsed \/ NotCMS \/ NoCMS
  BY <1>1, <1>4 DEF Unparsed, Parsed, NotCMS, NoCMS, NextSlice
<1>5. CASE CMSFound
  <2>1. pass \in {"detect", "prescan"} /\ ~NobodySigned
    BY <1>5, RepairMeetsNoCMS DEF NobodySigned
  <2>2. /\ UNCHANGED <<task, pass, wrong, verdict>> /\ pc' = "slice"
        /\ refused' <=> pass # "detect"
        /\ pass # "detect" => kind' = kind
        /\ pc = "cms"
    BY <1>5 DEF CMSFound, Refuses
  <2> QED
    BY <1>0, <2>1, <2>2 DEF SignersKnown
<1>6. CASE BlobMissing \/ OtherBlob \/ CodeDirectory \/ BadPage \/ EndDirectory
  BY <1>1, <1>6 DEF BlobMissing, OtherBlob, CodeDirectory, BadPage, EndDirectory
<1>7. CASE EndSlice
  BY <1>1, <1>7 DEF EndSlice, NextSlice
<1>8. CASE HashPage
  <2>1. /\ UNCHANGED <<task, pass, kind, refused, verdict, pc>> /\ pc = "slot"
        /\ pass # "repair" => wrong' = wrong
    BY <1>8 DEF HashPage, Rewrites
  <2> QED
    BY <1>0, <2>1 DEF SignersKnown
<1>9. CASE NotMachO \/ Load \/ Plan
  <2>1. pass = "detect" /\ ~refused /\ wrong = container.wrong /\ verdict = "none"
    BY <1>0, <1>9 DEF NotMachO, Load, Plan, SignersKnown
  <2> QED
    BY <1>0, <1>9, <2>1 DEF NotMachO, Load, Plan, SignersKnown, Begin, Report
<1>10. CASE EndDetect
  <2>1. pass = "detect" /\ pc = "slice" /\ si > Visits
    BY <1>10, VisitsTyped DEF EndDetect, Walked, FileInv, Typed
  <2>2. kind # "cms" => NobodySigned
    BY <2>1, <1>0, AllSettled DEF Settled, NobodySigned
  <2> QED
    BY <1>0, <1>10, <2>1, <2>2 DEF EndDetect, SignersKnown, Begin, Report
<1>11. CASE EndCheck
  BY <1>0, <1>11 DEF EndCheck, Walked, SignersKnown, Begin, Report
<1>12. CASE EndPrescan
  <2>1. pass = "prescan" /\ pc = "slice" /\ si > Visits
    BY <1>12, VisitsTyped DEF EndPrescan, Walked, FileInv, Typed
  <2>2. ~refused => NobodySigned
    BY <2>1, <1>0, AllSettled DEF Settled, NobodySigned
  <2> QED
    BY <1>0, <1>12, <2>1, <2>2 DEF EndPrescan, SignersKnown, Begin, Report
<1>13. CASE EndRepair \/ EndRecheck \/ Overlaid
  BY <1>0, <1>13 DEF Overlaid, Overlays, Rewrites, EndRepair, EndRecheck, Walked, SignersKnown, Begin, Report
<1>14. CASE Done
  BY <1>0, <1>14 DEF Done, vars, SignersKnown
<1> QED
  BY <1>2, <1>3, <1>4, <1>5, <1>6, <1>7, <1>8, <1>9, <1>10, <1>11, <1>12, <1>13, <1>14 DEF Next

(* What a check or another one calls stale or doubtful is so.              *)
LEMMA HitHasCause ==
    ASSUME FileInv, Found, Next, Checking, Walking, Walking', ~hit, hit'
    PROVE  Flawed
<1>0. /\ AtSignature /\ AtBlob /\ AtSlot /\ Flags /\ pass \in Passes
      /\ container \in Containers /\ si \in Nat \ {0}
      /\ AtSlice => si <= Visits /\ Visited(si)
  BY DEF FileInv, Typed, Found, CheckedSoFar
<1>1. AtSlice => si \in InFile
  BY <1>0, VisitsTyped DEF InFile
<1>2. CASE Unparsed
  <2>1. AtSlice /\ Signed(si) /\ ~Sound(si)
    BY <1>0, <1>2 DEF Unparsed, AtSlice, AtSignature, Sound
  <2> QED
    BY <1>1, <2>1 DEF Flawed, FlawedIn
<1>3. CASE HashPage
  <2>1. AtSlice /\ pc = "slot" /\ Signed(si) /\ n \in Directories(si) /\ i < Blob(si, n).nCodeSlots
    BY <1>0, <1>3 DEF HashPage, AtSlice, AtSignature, AtSlot, MoreSlots, Directory
  <2>2. <<si, n, i>> \in wrong
    BY <1>3, Zenon DEF HashPage, Current
  <2>3. i \in 0..Blob(si, n).nCodeSlots - 1
    BY <2>1, BlobInHand
  <2> QED
    BY <1>1, <2>1, <2>2, <2>3 DEF Flawed, FlawedIn
<1>4. CASE EndSlice
  <2>1. /\ AtSlice /\ pc = "blob" /\ ~MoreEntries /\ Signed(si) /\ n \in Nat \ {0}
        /\ Slice(si).count \in Nat
    BY <1>0, <1>4, SliceNumbers DEF EndSlice, AtSlice, AtSignature, FileInv, Typed
  <2>2. suspect \/ ~anyCD
    BY <1>4, Zenon DEF EndSlice, Doubtful
  <2>3. ~Sound(si)
    <3>1. CASE suspect
      BY <1>0, <2>1, <3>1 DEF AtBlob
    <3>2. CASE ~suspect /\ ~anyCD
      <4>1. \A b \in 1..Slice(si).count : b \in 1..n-1
        BY <2>1 DEF MoreEntries
      <4>2. \A b \in Directories(si) : b \in 1..n-1
        BY <4>1 DEF Directories
      <4>3. Directories(si) = {}
        BY <1>0, <2>1, <3>2, <4>2 DEF AtBlob
      <4> QED
        BY <4>3 DEF Sound
    <3> QED
      BY <2>2, <3>1, <3>2
  <2> QED
    BY <1>1, <2>1, <2>3 DEF Flawed, FlawedIn
<1>5. SkipSlice \/ VisitSlice \/ ReadHeader \/ NoSignature \/ OtherCommand \/ CodeSignature
          => hit' = hit
  BY DEF SkipSlice, VisitSlice, ReadHeader, NoSignature, OtherCommand, CodeSignature
<1>6. Parsed \/ CMSFound \/ NotCMS \/ NoCMS => hit' = hit
  BY DEF Parsed, CMSFound, NotCMS, NoCMS
<1>7. BlobMissing \/ OtherBlob \/ CodeDirectory \/ BadPage \/ EndDirectory => hit' = hit
  BY DEF BlobMissing, OtherBlob, CodeDirectory, BadPage, EndDirectory
<1>8. NotMachO \/ Load \/ Plan \/ WalkContainer \/ Done => ~Walking
  BY DEF NotMachO, Load, Plan, WalkContainer, Done, Walking, AtSlice
<1>9. EndDetect \/ EndCheck \/ EndPrescan \/ EndRepair \/ EndRecheck \/ Overlaid => ~Walking'
  BY DEF Overlaid, EndDetect, EndCheck, EndPrescan, EndRepair, EndRecheck, Begin, Report, Walking, AtSlice
<1> QED
  BY <1>2, <1>3, <1>4, <1>5, <1>6, <1>7, <1>8, <1>9 DEF Next

(* Flawed is a matter of the file and of the slots that are wrong.         *)
LEMMA FlawedStays ==
    ASSUME UNCHANGED container
    PROVE  /\ FlawedIn(container.wrong)' = FlawedIn(container.wrong)
           /\ UNCHANGED wrong => (Flawed' = Flawed /\ \A s : AllRight(s)' = AllRight(s))
  BY SliceStays, SignatureStays, BlobStays DEF Flawed, FlawedIn, AllRight

(* Every step keeps what is known of what is stale.                        *)
LEMMA FlawsStep ==
    ASSUME FileInv, Found, Next
    PROVE  FlawsKnown'
<1>0. /\ UNCHANGED container /\ SignersKnown /\ BehindIsSettled /\ Typed /\ Flags /\ FlawsKnown
      /\ Tangled' = Tangled /\ FlawedIn(container.wrong)' = FlawedIn(container.wrong)
  BY FlagsStep, TangledStays, FlawedStays DEF FileInv, Found, Typed
<1>1. CASE Walking /\ Walking'
  <2>1. UNCHANGED <<task, pass>> /\ (hit => hit') /\ pc' # "walk"
    BY <1>0, <1>1, WithinAPass DEF Walking, AtSlice
  <2>2. (Checking /\ Walking /\ hit)' => Flawed'
    <3> SUFFICES ASSUME Checking, hit' PROVE Flawed'
      BY <2>1 DEF Checking
    <3>1. wrong' = wrong
      BY WrongStep DEF Checking
    <3>2. Flawed
      BY <1>0, <1>1, HitHasCause DEF FlawsKnown
    <3> QED
      BY <1>0, <3>1, <3>2, FlawedStays
  <2>4. (task = "scan" /\ pass \in {"prescan", "repair"} => FlawedIn(container.wrong))'
    BY <1>0, <2>1 DEF FlawsKnown
  <2>5. (pass = "repair" /\ (pc = "walk" \/ ~hit) => wrong = container.wrong)'
    BY <1>0, <2>1, WrongStep DEF FlawsKnown
  <2>6. pass = "recheck" /\ ~Tangled => (\A s \in InFile : Signed(s) /\ Sound(s) => AllRight(s))'
    BY <1>0, <2>1, WrongStep, FlawedStays, SliceStays, SignatureStays DEF FlawsKnown
  <2> QED
    BY <1>0, <2>1, <2>2, <2>4, <2>5, <2>6 DEF FlawsKnown
<1>2. CASE ~Walking /\ Walking'
  <2>1. UNCHANGED <<task, pass, wrong>> /\ ~hit' /\ pc = "walk" /\ pc' # "walk"
    BY <1>2, StartsWalking DEF WalkContainer, inputVars, resultVars
  <2> QED
    BY <1>0, <2>1, FlawedStays, SliceStays, SignatureStays DEF FlawsKnown
<1>3. CASE ~Walking'
  <2>1. wrong' = wrong
    BY <1>3, WrongStep DEF HashPage, Walking, AtSlice
  <2>2. /\ Flawed' = Flawed
        /\ (\A s \in InFile : Signed(s) /\ Sound(s) => AllRight(s))'
              <=> (\A s \in InFile : Signed(s) /\ Sound(s) => AllRight(s))
    BY <1>0, <2>1, FlawedStays, SliceStays, SignatureStays
  <2>3. CASE UNCHANGED <<task, pass, hit>> /\ pc' # "walk"
    BY <1>0, <1>3, <2>1, <2>2, <2>3 DEF FlawsKnown
  <2>4. CASE pass' \in {"detect", "check"} \/ (pass' = "prescan" /\ task' = "plan")
    BY <1>3, <2>4 DEF FlawsKnown
  <2>5. CASE EndCheck
    <3>1. CASE hit /\ pass' = "prescan" /\ task' = task
      <4>1. Flawed /\ wrong = container.wrong
        BY <1>0, <2>5, <3>1
        DEF EndCheck, Walked, Walking, Checking, FlawsKnown, SignersKnown
      <4> QED
        BY <1>0, <1>3, <2>2, <3>1, <4>1 DEF FlawsKnown, Checking, Flawed
    <3>2. CASE pass' = pass
      BY <2>4, <2>5, <3>2 DEF EndCheck, Walked
    <3> QED
      BY <2>5, <3>1, <3>2 DEF EndCheck, inputVars, Begin
  <2>6. CASE EndPrescan
    <3>1. pass = "prescan" /\ wrong = container.wrong /\ task' = task /\ pass' \in {"prescan", "repair"}
      BY <1>0, <2>6 DEF EndPrescan, Walked, SignersKnown, inputVars, Begin
    <3> QED
      BY <1>0, <1>3, <2>1, <2>2, <3>1 DEF FlawsKnown
  <2>7. CASE EndRepair
    <3>1. pass = "repair" /\ pc = "slice" /\ si > Visits /\ UNCHANGED <<task, hit>>
      BY <2>7, VisitsTyped DEF EndRepair, Walked, FileInv, Typed, inputVars
    <3>2. pass' = "recheck" \/ (pass' = pass /\ pc' # "walk")
      BY <2>7 DEF EndRepair, Begin, Report
    <3>3. ~Tangled => \A s \in InFile : Signed(s) /\ Sound(s) => AllRight(s)
      BY <1>0, <3>1, AllSettled DEF Settled
    <3>4. CASE pass' = "recheck"
      BY <1>0, <1>3, <2>2, <3>3, <3>4 DEF FlawsKnown
    <3> QED
      BY <2>3, <3>1, <3>2, <3>4
  <2>8. NotMachO \/ Load \/ Plan => pass' = "detect" \/ (pass' = "prescan" /\ task' = "plan")
    BY <1>0 DEF NotMachO, Load, Plan, Begin, SignersKnown, inputVars
  <2>9. EndDetect => pass' \in {"detect", "check"}
    BY DEF EndDetect, Walked, Begin
  <2>10. EndRecheck \/ Overlaid \/ Done => UNCHANGED <<task, pass, hit>> /\ pc' # "walk"
    BY DEF EndRecheck, Overlaid, Done, vars, Report, inputVars
  <2>11. SkipSlice \/ VisitSlice \/ ReadHeader \/ NoSignature \/ OtherCommand \/ CodeSignature
            => Walking'
    BY DEF SkipSlice, VisitSlice, ReadHeader, NoSignature, OtherCommand, CodeSignature,
           NextSlice, Walking, AtSlice
  <2>12. WalkContainer \/ Unparsed \/ Parsed \/ CMSFound \/ NotCMS \/ NoCMS => Walking'
    BY DEF WalkContainer, Unparsed, Parsed, CMSFound, NotCMS, NoCMS, NextSlice, Walking, AtSlice
  <2>13. BlobMissing \/ OtherBlob \/ CodeDirectory \/ BadPage \/ HashPage \/ EndDirectory \/ EndSlice
            => Walking'
    BY DEF BlobMissing, OtherBlob, CodeDirectory, BadPage, HashPage, EndDirectory, EndSlice,
           NextSlice, Walking, AtSlice
  <2> QED
    BY <1>3, <2>3, <2>4, <2>5, <2>6, <2>7, <2>8, <2>9, <2>10, <2>11, <2>12, <2>13 DEF Next
<1> QED
  BY <1>1, <1>2, <1>3

(* Doing nothing changes nothing of what was found out.                    *)
LEMMA FoundStutters ==
    ASSUME Found, UNCHANGED vars
    PROVE  Found'
<1>0. /\ UNCHANGED <<container, task, pass, pc, si, lc, n, i, kind, hit, suspect, anyCD>>
      /\ UNCHANGED <<refused, wrong, verdict>>
      /\ AtCommand /\ AtSignature /\ AtBlob /\ AtSlot
      /\ BehindIsSettled /\ SignersKnown /\ FlawsKnown
  BY DEF vars, Found
<1>1. AtCommand'
  BY <1>0, InHandStays DEF AtCommand, Command, Slice, Base
<1>2. AtSignature'
  BY <1>0, InHandStays DEF AtSignature
<1>3. AtBlob'
  BY <1>0, InHandStays, RightInHand, TangledStays DEF AtBlob, Clean
<1>4. AtSlot'
  BY <1>0, InHandStays, TangledStays DEF AtSlot, Clean, PageFits, PageEnd, PageStart, Base, Blob, Slice, size
<1>5. \A s : /\ Tangled' = Tangled
             /\ Signed(s)' = Signed(s) /\ Sound(s)' = Sound(s) /\ AllRight(s)' = AllRight(s)
             /\ CarriesCMS(s)' = CarriesCMS(s)
  BY <1>0, SliceStays, SignatureStays, FlawedStays, TangledStays
<1>6. BehindIsSettled'
  BY <1>0, <1>5, SliceStays DEF BehindIsSettled, Settled, Walking, AtSlice, Checking
<1>7. SignersKnown'
  BY <1>0, <1>5, SliceStays DEF SignersKnown, NobodySigned
<1>8. FlawsKnown'
  BY <1>0, <1>5, SliceStays, FlawedStays DEF FlawsKnown, Checking, Walking, AtSlice
<1> QED
  BY <1>1, <1>2, <1>3, <1>4, <1>6, <1>7, <1>8 DEF Found

(* All of it holds initially, of every step, and so always.                *)
LEMMA FoundInit == Init => Found
<1> SUFFICES ASSUME Init PROVE Found
  OBVIOUS
<1>1. AtCommand /\ AtSignature /\ AtBlob /\ AtSlot /\ BehindIsSettled
  BY DEF Init, AtCommand, AtSignature, AtBlob, AtSlot, BehindIsSettled, Walking, AtSlice
<1>2. SignersKnown /\ FlawsKnown
  BY DEF Init, SignersKnown, FlawsKnown, Checking
<1> QED
  BY <1>1, <1>2 DEF Found

LEMMA FoundStep == FileInv /\ Found /\ [Next]_vars => Found'
<1>1. ASSUME FileInv, Found, Next PROVE Found'
  BY <1>1, AtCommandStep, AtSignatureStep, AtBlobStep, AtSlotStep, BehindStep, SignersStep,
     FlawsStep DEF Found
<1> QED
  BY <1>1, FoundStutters

LEMMA AlwaysFound == Spec => [](FileInv /\ Found)
<1>1. Init => FileInv /\ Found
  BY FileInvInit, FoundInit
<1>2. FileInv /\ Found /\ [Next]_vars => (FileInv /\ Found)'
  BY FileInvStep, FoundStep
<1> QED
  BY <1>1, <1>2, PTL DEF Spec

(* A verdict is given once, at the end, and says what the last pass found. *)
LEMMA VerdictStep ==
    ASSUME FileInv, Found, [Next]_vars, verdict' # verdict
    PROVE  /\ UNCHANGED <<container, task, wrong>>
           /\ \/ NotMachO /\ verdict' = "healthy"
              \/ EndDetect /\ verdict' = "healthy"
              \/ EndCheck /\ verdict' = "healthy" /\ ~hit
              \/ EndRecheck /\ verdict' = (IF hit THEN "unverifiable" ELSE "repairable")
              \/ EndPrescan /\ verdict' = "unverifiable" /\ task = "scan" /\ refused
              \/ EndRepair /\ verdict' = "unverifiable" /\ (refused \/ ~hit)
              \/ verdict' \in {"oversized", "cms", "refused", "overlaid"}
<1> USE DEF inputVars, directoryVars, resultVars, Report, Begin
<1>1. SkipSlice \/ VisitSlice \/ ReadHeader \/ NoSignature \/ OtherCommand \/ CodeSignature
          => verdict' = verdict
  BY DEF SkipSlice, VisitSlice, ReadHeader, NoSignature, OtherCommand, CodeSignature
<1>2. Unparsed \/ Parsed \/ CMSFound \/ NotCMS \/ NoCMS \/ WalkContainer \/ Plan
          => verdict' = verdict
  BY DEF Unparsed, Parsed, CMSFound, NotCMS, NoCMS, WalkContainer, Plan
<1>3. BlobMissing \/ OtherBlob \/ CodeDirectory \/ BadPage \/ HashPage \/ EndDirectory \/ EndSlice
          => verdict' = verdict
  BY DEF BlobMissing, OtherBlob, CodeDirectory, BadPage, HashPage, Overlaid, EndDirectory, EndSlice
<1>4. Done \/ UNCHANGED vars => verdict' = verdict
  BY DEF Done, vars
<1>5. CASE NotMachO
  BY <1>5 DEF NotMachO
<1>6. CASE Load
  BY <1>6 DEF Load
<1>7. CASE EndDetect
  BY <1>7 DEF EndDetect
<1>8. CASE EndCheck
  BY <1>8 DEF EndCheck
<1>9. CASE EndPrescan
  BY <1>9 DEF EndPrescan, FileInv, Typed
<1>10. CASE EndRepair
  BY <1>10 DEF EndRepair
<1>11. CASE EndRecheck
  BY <1>11 DEF EndRecheck
<1>12. CASE Overlaid
  BY <1>12 DEF Overlaid
<1> QED
  BY <1>12, <1>1, <1>2, <1>3, <1>4, <1>5, <1>6, <1>7, <1>8, <1>9, <1>10, <1>11 DEF Next

(* While the verdict stays, what it says of the file does.                 *)
LEMMA VerdictStays ==
    ASSUME FileInv, Found, [Next]_vars, verdict' = verdict, verdict # "none"
    PROVE  /\ UNCHANGED <<container, task, wrong>>
<1>1. pc = "done"
  BY DEF Found, SignersKnown
<1>2. ~Walking
  BY <1>1 DEF Walking, AtSlice
<1>3. UNCHANGED container
  BY FlagsStep DEF FileInv, vars
<1>4. wrong' = wrong
  BY <1>2, WrongStep DEF vars, HashPage, Walking, AtSlice
<1>5. task' = task
  BY DEF Next, vars, inputVars, NotMachO, Load, Plan, WalkContainer, SkipSlice, VisitSlice,
         ReadHeader, NoSignature, OtherCommand, CodeSignature, Unparsed, Parsed, CMSFound, NotCMS,
         NoCMS, BlobMissing, OtherBlob, CodeDirectory, BadPage, HashPage, Overlaid, EndDirectory, EndSlice,
         EndDetect, EndCheck, EndPrescan, EndRepair, EndRecheck, Done
<1> QED
  BY <1>3, <1>4, <1>5

-----------------------------------------------------------------------------
(* The verdicts.                                                           *)

(* A file that any slice of is signed by a developer is never written to,  *)
(* wherever in it the slice lies and whatever numbers it holds.            *)
THEOREM CMSFilesAreLeftAlone == Spec => []CMSIsLeftAlone
<1>1. Found => CMSIsLeftAlone
  BY DEF Found, SignersKnown, NobodySigned, CMSIsLeftAlone
<1> QED
  BY <1>1, AlwaysFound, PTL

(* "Could not parse" is never taken for "valid": a file that is reported   *)
(* healthy, and one that is called repairable, was verified in every slot  *)
(* of every CodeDirectory of every slice.                                  *)
THEOREM VerdictsAreVerified == Spec => []HealthyIsVerified
<1>1. Init => HealthyIsVerified
  BY DEF Init, HealthyIsVerified
<1>2. ASSUME FileInv /\ Found, HealthyIsVerified, [Next]_vars
      PROVE  HealthyIsVerified'
  <2>0. /\ UNCHANGED <<container, wrong>> =>
              (\A s \in InFile : Signed(s) => Sound(s) /\ AllRight(s))'
                <=> (\A s \in InFile : Signed(s) => Sound(s) /\ AllRight(s))
    BY SliceStays, SignatureStays, FlawedStays
  <2>1. CASE verdict' = verdict
    <3> SUFFICES ASSUME verdict' \in {"healthy", "repairable"}, size' >= MagicSize
                 PROVE  (\A s \in InFile : Signed(s) => Sound(s) /\ AllRight(s))'
      BY DEF HealthyIsVerified
    <3>1. UNCHANGED <<container, wrong>>
      BY <1>2, <2>1, VerdictStays
    <3> QED
      BY <1>2, <2>0, <2>1, <3>1 DEF HealthyIsVerified, size
  <2>2. CASE verdict' # verdict
    <3> SUFFICES ASSUME verdict' \in {"healthy", "repairable"}, size' >= MagicSize
                 PROVE  \A s \in InFile : Signed(s) => Sound(s) /\ AllRight(s)
      BY <1>2, <2>0, <2>2, VerdictStep DEF HealthyIsVerified
    <3>1. BehindIsSettled /\ si \in Nat \ {0} /\ Visits \in Nat /\ size' = size /\ size \in Nat
      BY <1>2, <2>2, VerdictStep, VisitsTyped, ContainerTyped
      DEF Found, FileInv, Typed, size
    <3>2. CASE NotMachO
      <4>1. container.format = "other"
        BY <3>1, <3>2, Sizes DEF NotMachO
      <4>2. Visits = 0
        BY <4>1 DEF Visits
      <4> QED
        BY <4>2 DEF InFile
    <3>3. CASE EndDetect /\ verdict' = "healthy"
      <4>1. pc = "slice" /\ si > Visits /\ pass = "detect" /\ kind = "none"
        BY <1>2, <2>2, <3>3 DEF EndDetect, Walked, Report
      <4> QED
        BY <1>2, <3>1, <4>1, AllSettled DEF Settled
    <3>4. CASE (EndCheck \/ EndRecheck) /\ ~hit
      <4>1. pc = "slice" /\ si > Visits /\ Checking /\ ~hit
        BY <3>4 DEF EndCheck, EndRecheck, Walked, Checking
      <4> QED
        BY <1>2, <3>1, <4>1, AllSettled DEF Settled
    <3> QED
      BY <1>2, <2>2, <3>2, <3>3, <3>4, VerdictStep
  <2> QED
    BY <2>1, <2>2
<1> QED
  BY <1>1, <1>2, AlwaysFound, PTL DEF Spec

(* A file is called unverifiable only when a signature in it cannot be     *)
(* verified, or what is repaired last lies in what was hashed before:      *)
(* whatever else is merely stale is repairable.                            *)
THEOREM UnverifiableForACause == Spec => []UnverifiableHasCause
<1> DEFINE Cause == (\E s \in InFile : Signed(s) /\ ~Sound(s)) \/ Tangled
<1>1. Init => UnverifiableHasCause
  BY DEF Init, UnverifiableHasCause
<1>2. ASSUME FileInv /\ Found, UnverifiableHasCause, [Next]_vars
      PROVE  UnverifiableHasCause'
  <2>0. UNCHANGED container => (Cause' <=> Cause)
    BY SliceStays, SignatureStays, TangledStays
  <2>1. CASE verdict' = verdict
    <3> SUFFICES ASSUME verdict' = "unverifiable", task' = "scan"
                 PROVE  Cause'
      BY DEF UnverifiableHasCause
    <3>1. UNCHANGED <<container, task>>
      BY <1>2, <2>1, VerdictStays
    <3> QED
      BY <1>2, <2>0, <2>1, <3>1 DEF UnverifiableHasCause
  <2>2. CASE verdict' # verdict
    <3> SUFFICES ASSUME verdict' = "unverifiable", task' = "scan", ~Tangled
                 PROVE  \E s \in InFile : Signed(s) /\ ~Sound(s)
      BY <1>2, <2>0, <2>2, VerdictStep DEF UnverifiableHasCause
    <3>1. /\ BehindIsSettled /\ SignersKnown /\ FlawsKnown /\ task = "scan"
      BY <1>2, <2>2, VerdictStep DEF Found
    <3>2. CASE EndRecheck /\ hit
      <4>1. pass = "recheck" /\ pc = "slice"
        BY <3>2 DEF EndRecheck, Walked
      <4>2. Flawed
        BY <3>1, <3>2, <4>1 DEF FlawsKnown, Checking, Walking
      <4> QED
        BY <3>1, <4>1, <4>2 DEF FlawsKnown, Flawed, FlawedIn, AllRight
    <3>3. CASE EndPrescan /\ refused
      BY <3>1, <3>3 DEF EndPrescan, Walked, SignersKnown
    <3>4. CASE EndRepair /\ (refused \/ ~hit)
      <4>1. pass = "repair" /\ pc = "slice" /\ si > Visits /\ ~hit
        BY <3>1, <3>4 DEF EndRepair, Walked, SignersKnown
      <4>2. Flawed
        BY <3>1, <4>1 DEF FlawsKnown, Flawed
      <4>3. \A s \in InFile : Signed(s) /\ Sound(s) => AllRight(s)
        BY <1>2, <3>1, <4>1, AllSettled DEF Settled
      <4> QED
        BY <4>2, <4>3 DEF Flawed, FlawedIn, AllRight
    <3> QED
      BY <1>2, <2>2, <3>2, <3>3, <3>4, VerdictStep
  <2> QED
    BY <2>1, <2>2
<1> QED
  BY <1>1, <1>2, AlwaysFound, PTL DEF Spec

=============================================================================
