----------------------------- MODULE MCNtfsFile -----------------------------
(***************************************************************************)
(* Files of up to two runs (three where the clusters go up, down and up    *)
(* again), with lengths and distances of one and two bytes, and the        *)
(* attribute ending anywhere in the list; files with several streams.      *)
(***************************************************************************)
EXTENDS NtfsFile

Run(n, d) == [length |-> n, offset |-> d, sparse |-> FALSE]
Hole(n) == [length |-> n, offset |-> 0, sparse |-> TRUE]

First == {Run(n, d) : n \in {1, 2, 17}, d \in {1, 7, 8, 20}}
Later == {Run(n, d) : n \in {1, 16}, d \in {-20, -9, -8, -1, 3, 127}} \cup {Hole(2)}

\* A distance of a whole word, forwards and back; a damaged list that leads in
\* front of the first cluster.
Wide == <<Run(1, 2000), Run(1, -1500)>>
Before == <<Run(2, 1), Run(3, -2), Run(1, 9)>>

RunLists ==
    {<<a>> : a \in First}
        \cup {l \in {<<a, b>> : a \in First, b \in Later} : l[1].offset + l[2].offset >= 0}
        \cup {<<Run(2, 20), Run(1, -20), Run(1, 9)>>, Wide, Before}

NonResident(type, name_length, list, kept) ==
    [attr_type |-> type, name_length |-> name_length, non_resident |-> TRUE, zero_size |-> FALSE,
     content_size |-> 0, runs |-> list, kept |-> kept, data_size |-> 3]
Resident(type, name_length, n) ==
    [attr_type |-> type, name_length |-> name_length, non_resident |-> FALSE, zero_size |-> FALSE,
     content_size |-> n, runs |-> << >>, kept |-> 0, data_size |-> 0]
ZeroSize == [Resident("Data", 0, 0) EXCEPT !.zero_size = TRUE]

Fragment == <<Run(1, 3), Run(1, -3)>>
Streams ==
    {Resident("FileName", 0, 4), Resident("Data", 0, 6), Resident("Data", 1, 2), ZeroSize,
     NonResident("Data", 0, Fragment, 7), NonResident("Data", 2, <<Run(1, 1)>>, 3)}

MCRecords ==
    UNION {{<<NonResident("Data", 0, l, n)>> : n \in 0 .. Len(Packed(l)) + 1} : l \in RunLists}
        \cup {<<a, b, c>> : a \in Streams, b \in Streams, c \in Streams}
MCRecordLengths == {149, 150, 200}
MCFileOffsets == {0, 1, 5}
MCBufferLengths == {0, 3, 40}

MCRefuting ==
    {<<NonResident("Data", 0, Fragment, 7)>>,
     <<NonResident("Data", 0, Wide, Len(Packed(Wide)))>>,
     <<Resident("Data", 0, 6), Resident("Data", 1, 2)>>}
=============================================================================
