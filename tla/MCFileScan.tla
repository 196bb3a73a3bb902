----------------------------- MODULE MCFileScan -----------------------------
(***************************************************************************)
(* An instance of FileScan for TLC.  One container of each format is       *)
(* spelled out; from it come those in which one or two of its numbers are  *)
(* one off, nothing at all, or so large that their sums wrap.              *)
(***************************************************************************)
EXTENDS FileScan, FiniteSets

W == 64

(* A slice of 16: a header of 2, commands of 1 and 2, code to 7, and there *)
(* a SuperBlob of 1, its index of 2, a directory of 2 + 2 slots, each for  *)
(* a page of 4, and a CMS blob of 2.                                       *)
Numbers ==
    [size |-> 16, off |-> 0, len |-> 16, header |-> 2, sizeofcmds |-> 3, cmdsize |-> 1,
     sigcmdsize |-> 2, sigOff |-> 7, sigSize |-> 9, count |-> 2, blobOff |-> 3,
     length |-> 4, hashOffset |-> 2, special |-> 2, slots |-> 2, codeLimit |-> 7,
     hashSize |-> 1, pageSize |-> 4, cmsOff |-> 7, cmsLength |-> 1]

CMSBlob(f) ==
    [slot |-> "signature", off |-> f.cmsOff, magic |-> "wrapper", length |-> f.cmsLength,
     hashOffset |-> 0, nSpecialSlots |-> 0, nCodeSlots |-> 0, codeLimit |-> 0,
     hashType |-> "none", hashSize |-> 0, pageSize |-> 0]

DirectoryBlob(f, t) ==
    [slot |-> "other", off |-> f.blobOff, magic |-> "directory", length |-> f.length,
     hashOffset |-> f.hashOffset, nSpecialSlots |-> f.special, nCodeSlots |-> f.slots,
     codeLimit |-> f.codeLimit, hashType |-> t, hashSize |-> f.hashSize,
     pageSize |-> f.pageSize]

Plain == [hash |-> "sha256", magic |-> TRUE, directory |-> TRUE]

(* The blobs there are, as many as the index has entries.                  *)
BlobsOf(f, o) ==
    [b \in 1..(IF f.count > 3 THEN 0 ELSE f.count) |->
        IF b = 1 /\ o.directory THEN DirectoryBlob(f, o.hash) ELSE CMSBlob(f)]

SliceOf(f, o) ==
    [off |-> f.off, len |-> f.len, header |-> f.header, sizeofcmds |-> f.sizeofcmds,
     commands |-> <<[signature |-> FALSE, at |-> f.header, size |-> f.cmdsize],
                    [signature |-> TRUE, at |-> f.header + f.cmdsize, size |-> f.sigcmdsize]>>,
     sigOff |-> f.sigOff, sigSize |-> f.sigSize, magic |-> o.magic, count |-> f.count,
     blobs |-> BlobsOf(f, o)]

Near(v) == {0, v + 1, W - 1} \cup {w \in {v} : w > 0} \cup {w \in 0..v : w = v - 1}

Varied == DOMAIN Numbers \ {"off", "len", "header"}

Changed(f, a, b) ==
    {[[f EXCEPT ![a] = v] EXCEPT ![b] = w] : v \in Near(f[a]), w \in Near(f[b])}

OneOff ==
    UNION {Changed(Numbers, a, b) : a \in Varied, b \in Varied}
    \cup {[Numbers EXCEPT !.count = c, !.sigSize = z] : c \in 1..3, z \in 1..4}

Options ==
    {Plain, [Plain EXCEPT !.hash = "unknown"], [Plain EXCEPT !.magic = FALSE],
     [Plain EXCEPT !.directory = FALSE]}

File(sz, fmt, ss, w) ==
    [size |-> sz, format |-> fmt, archSize |-> 1, nfat |-> Len(ss), slices |-> ss,
     wrong |-> w]

Thin ==
    {File(f.size, "thin", <<SliceOf(f, Plain)>>, w) :
        f \in OneOff, w \in {{}, {<<1, 1, 1>>}}}
    \cup {File(16, fmt, <<SliceOf([Numbers EXCEPT !.header = h, !.cmsLength = l], o)>>,
               {<<1, 1, 0>>, <<1, 1, 1>>}) :
             fmt \in {"thin", "other"}, h \in {0, 2, 3}, l \in 0..2, o \in Options}

(* Two slices behind an array of 2 + 2.                                    *)
Second == [Numbers EXCEPT !.off = 20]

FatFields == {"off", "len", "codeLimit", "cmsLength", "sigSize"}

FatOf(sz, f, g, w) ==
    File(sz, "fat", <<SliceOf(f, Plain), SliceOf(g, Plain)>>, w)

Fat1 == [Numbers EXCEPT !.off = 4]

FatFiles ==
    {FatOf(sz, f, Second, w) :
        sz \in {35, 36},
        f \in UNION {Changed(Fat1, a, b) : a \in FatFields, b \in FatFields},
        w \in {{}, {<<1, 1, 1>>}}}
    \cup {FatOf(36, Fat1, g, w) :
        g \in UNION {Changed(Second, a, b) : a \in FatFields, b \in FatFields},
        w \in {{<<1, 1, 1>>}, {<<1, 1, 0>>, <<2, 1, 1>>}}}

(* Arrays that do not fit, and slices of an unknown kind.                  *)
OddFat ==
    {[FatOf(sz, Fat1, [Second EXCEPT !.header = h], {}) EXCEPT !.archSize = a] :
        sz \in {0, 1, 2, 3, 36, 50, 62}, h \in {0, 2}, a \in {1, 2, 20}}
    \cup {File(36, "fat", [k \in 1..m |-> SliceOf(Fat1, Plain)], {}) : m \in {0, 3}}

(* Slots that lie in pages: of themselves, of slots before or after them,  *)
(* and of those of the other of two directories.                           *)
Inside(k, l, p) ==
    [Numbers EXCEPT !.sigOff = 5, !.sigSize = 11, !.length = 2 + k, !.cmsOff = 5 + k,
                    !.slots = k, !.codeLimit = l, !.pageSize = p]

Pair(a, b, f, g) ==
    [SliceOf(f, Plain) EXCEPT
        !.blobs = <<DirectoryBlob([f EXCEPT !.blobOff = a], "sha256"),
                    DirectoryBlob([g EXCEPT !.blobOff = b], "sha256")>>]

Pages == {Inside(2, 7, 4), Inside(2, 12, 8), Inside(2, 16, 8)}

InPages ==
    {File(16, "thin", <<SliceOf(Inside(k, l, p), Plain)>>, w) :
        k \in 1..4, l \in {7, 10, 11, 12, 14, 16}, p \in {4, 8},
        w \in SUBSET {<<1, 1, 0>>, <<1, 1, 2>>} \cup {{<<1, 1, 1>>}}}
    \cup {File(16, "thin", <<s>>, w) :
        s \in {Pair(3, 7, f, g) : f \in Pages, g \in Pages}
              \cup {Pair(7, 3, f, g) : f \in Pages, g \in Pages},
        w \in SUBSET {<<1, 1, 0>>, <<1, 1, 1>>, <<1, 2, 1>>}}

MCContainers == Thin \cup FatFiles \cup OddFat \cup InPages

MCHashSizes == [t \in {"sha256"} |-> 1]

=============================================================================
