------------------------------- MODULE NtfsFile -------------------------------
(***************************************************************************)
(* A file of an NTFS volume, src/src/fs/ntfs.rs: parse_mft_record walks    *)
(* through the attributes of its MFT record, from_mft_record makes an      *)
(* inode of them, and Inode::read reads the file, from the record itself   *)
(* or through the runs of NtfsRuns.                                        *)
(*                                                                         *)
(* The record on the disk is the sequence of its attributes, laid out as   *)
(* the NTFS format says: a header, the name, and the contents or the       *)
(* packed run list.  Names, timestamps and the bytes of the contents are   *)
(* left out; offsets and sizes are those of the format.  Nothing in the    *)
(* kernel reads a disk, so no record reaches these functions yet.          *)
(***************************************************************************)
EXTENDS NtfsRuns

CONSTANTS Records,          \* the records of the files, sequences of attributes
          RecordLengths,    \* how many bytes of a record the buffer holds
          MFT_RECORD_SIZE,  \* 1024: the least it must hold
          ATTRS_OFFSET,     \* where the attributes begin
          FileOffsets,      \* where reads start
          BufferLengths     \* how much they ask for

\* The run lists and attributes of the format: a length is a u64 and a distance
\* an i64.
DiskRuns == {r \in [length : 0 .. Pow[WORD] - 1, offset : Int, sparse : BOOLEAN] :
                -Pow[WORD] <= 2 * r.offset /\ 2 * r.offset < Pow[WORD]}
AttributeTypes ==
    {"StandardInformation", "AttributeList", "FileName", "ObjectId", "SecurityDescriptor",
     "VolumeName", "VolumeInformation", "Data", "IndexRoot", "IndexAllocation", "Bitmap",
     "ReparsePoint", "EaInformation", "Ea", "LoggedUtilityStream"}
DiskAttributes ==
    {a \in [attr_type : AttributeTypes, name_length : Nat, non_resident : BOOLEAN,
            zero_size : BOOLEAN, content_size : Nat, runs : Seq(DiskRuns), kept : Nat,
            data_size : Nat] : a.kept <= Len(Packed(a.runs)) + 1}

ASSUME RecordsAssumption ==
    /\ Records \subseteq Seq(DiskAttributes)
    /\ RecordLengths \subseteq Nat /\ FileOffsets \subseteq Nat /\ BufferLengths \subseteq Nat
    /\ MFT_RECORD_SIZE \in Nat /\ ATTRS_OFFSET \in Nat

VARIABLES record,      \* the record on the disk
          length,      \* the bytes in the buffer, data.len()
          offset,      \* the walk's offset into the buffer
          attributes,  \* the attributes found so far
          size         \* the inode's metadata.size

walk == <<record, length, offset, attributes, size>>
vars == <<walk, runs_vars>>

-----------------------------------------------------------------------------
(* The format.  kept is how much of the run list, with its final 0, lies   *)
(* within the attribute.                                                   *)

HEADER == 24
NON_RESIDENT_HEADER == 64

NameBytes(a) == 2 * a.name_length
content_offset(a) == HEADER + NameBytes(a)
run_offset(a) == NON_RESIDENT_HEADER + NameBytes(a)
total_size(a) == IF a.zero_size THEN 0
                 ELSE IF a.non_resident THEN run_offset(a) + a.kept
                 ELSE content_offset(a) + a.content_size

\* Where the attributes begin, one behind the other.
Starts(k) ==
    LET ends[i \in 0 .. Len(record)] ==
            IF i = 0 THEN ATTRS_OFFSET ELSE ends[i - 1] + total_size(record[i])
    IN  ends[k - 1]

\* The attribute that starts at an offset; none there is the end marker.
AttributeAt(o) ==
    {record[k] : k \in {j \in DOMAIN record : Starts(j) = o /\ \A i \in 1 .. j - 1 : Starts(i) # o}}

Init ==
    /\ record \in Records /\ length \in RecordLengths
    /\ offset = ATTRS_OFFSET /\ attributes = << >> /\ size = 0
    /\ pc = "begin"
    /\ file = << >> /\ data = << >> /\ pos = 0 /\ runs = << >>
    /\ start = 0 /\ len = 0
    /\ idx = 0 /\ current_cluster = 0 /\ bytes_read = 0 /\ file_offset = 0

-----------------------------------------------------------------------------
(* parse_mft_record *)

\* A buffer that is short, or whose first word is not the signature of a
\* record, is refused.
parse_mft_record ==
    /\ pc = "begin"
    /\ \/ pc' = "refused"
       \/ length >= MFT_RECORD_SIZE /\ pc' = "walk"
    /\ UNCHANGED <<walk, parser, reader>>

\* The checks before an attribute is taken.
Fits(a) ==
    /\ offset + HEADER <= length
    /\ total_size(a) # 0
    /\ offset + total_size(a) <= length

\* The loop goes on with attribute a.
Takes(a) == offset + 4 < length /\ a \in AttributeAt(offset) /\ Fits(a)

\* An attribute's name is kept if it fits; the sizes are read where the
\* buffer holds them.
Attribute(a, run_list) ==
    [attr_type |-> a.attr_type,
     named |-> a.name_length > 0 /\ HEADER + NameBytes(a) <= total_size(a),
     resident_data |-> IF ~a.non_resident /\ offset + content_offset(a) + a.content_size <= length
                       THEN <<a.content_size>> ELSE << >>,
     run_list |-> run_list,
     data_size |-> IF a.non_resident THEN a.data_size ELSE a.content_size]

walk_resident ==
    /\ pc = "walk"
    /\ \E a \in AttributeAt(offset) :
         /\ Takes(a) /\ ~a.non_resident
         /\ attributes' = Append(attributes, Attribute(a, << >>))
         /\ offset' = offset + total_size(a)
    /\ UNCHANGED <<record, length, size, pc, parser, reader>>

\* The slice from run_offset to the end of the attribute goes to
\* parse_run_list, ...  The records are in the format, so run_offset is at most
\* total_size and the slice exists.
walk_runs ==
    /\ pc = "walk"
    /\ \E a \in AttributeAt(offset) :
         /\ Takes(a) /\ a.non_resident
         /\ file' = a.runs
         /\ data' = SubSeq(Append(Packed(a.runs), 0), 1, a.kept)
    /\ pos' = 0 /\ runs' = << >>
    /\ pc' = "parse"
    /\ UNCHANGED <<walk, reader>>

\* ... and what it returns into the attribute.
walk_parsed ==
    /\ pc = "parsed"
    /\ \E a \in AttributeAt(offset) :
         /\ attributes' = Append(attributes, Attribute(a, runs))
         /\ offset' = offset + total_size(a)
    /\ pc' = "walk"
    /\ UNCHANGED <<record, length, size, parser, reader>>

\* metadata.size of the attributes.
SizeOf(attrs) ==
    LET datas == {i \in DOMAIN attrs : attrs[i].attr_type = "Data"}
    IN  IF datas = {} THEN 0 ELSE attrs[Max(datas)].data_size

\* The end of the walk and from_mft_record: the size is the one of the last
\* Data attribute, whatever its name.
from_mft_record ==
    /\ pc = "walk"
    /\ \A a \in AttributeAt(offset) : ~Takes(a)
    /\ size' = SizeOf(attributes)
    /\ pc' = "inode"
    /\ UNCHANGED <<record, length, offset, attributes, parser, reader>>

-----------------------------------------------------------------------------
(* Inode::read *)

\* Fault: a named stream is taken for the file's data.
get_data_attributeAnyName(attrs) == {i \in DOMAIN attrs : attrs[i].attr_type = "Data"}

\* The first of these is the Data attribute that is read.
get_data_attribute(attrs) == {i \in DOMAIN attrs : attrs[i].attr_type = "Data" /\ ~attrs[i].named}

DataAttribute == attributes[Min(get_data_attribute(attributes))]

\* Data in the record: the bytes from o to the end of the buffer or the data.
read_resident(o, n) ==
    /\ pc = "inode"
    /\ get_data_attribute(attributes) # {} /\ DataAttribute.resident_data # << >>
    /\ LET available == DataAttribute.resident_data[1]
       IN  bytes_read' = IF o >= available THEN 0 ELSE Min({o + n, available}) - o
    /\ start' = o /\ len' = n /\ file_offset' = o + bytes_read'
    /\ pc' = "done"
    /\ UNCHANGED <<walk, parser, idx, current_cluster>>

read_runs(o, n) ==
    /\ pc = "inode"
    /\ get_data_attribute(attributes) # {} /\ DataAttribute.resident_data = << >>
    /\ read_from_runs(DataAttribute.run_list, o, n)
    /\ UNCHANGED walk

\* FileNotFound.
read_nothing ==
    /\ pc = "inode"
    /\ get_data_attribute(attributes) = {}
    /\ pc' = "refused"
    /\ UNCHANGED <<walk, parser, reader>>

Walk == parse_mft_record \/ walk_resident \/ walk_runs \/ walk_parsed \/ from_mft_record

Next ==
    \/ Walk
    \/ Loops /\ UNCHANGED walk
    \/ \E o \in FileOffsets, n \in BufferLengths : read_resident(o, n) \/ read_runs(o, n)
    \/ read_nothing

\* The functions are straight-line code: each goes on until it returns.
Spec == Init /\ [][Next]_vars /\ WF_vars(Walk) /\ WF_vars(Loops /\ UNCHANGED walk)

-----------------------------------------------------------------------------
(* Properties *)

\* The attributes of the record that come before the first one that is not
\* all in the buffer or claims to have no size.
WholeAttributes ==
    Max({k \in 0 .. Len(record) :
           \A j \in 1 .. k : total_size(record[j]) # 0 /\ Starts(j + 1) <= length})

\* What parsing attribute a of the format has to give.
Expected(a) ==
    [attr_type |-> a.attr_type,
     named |-> a.name_length > 0,
     resident_data |-> IF a.non_resident THEN << >> ELSE <<a.content_size>>,
     run_list |-> IF a.non_resident THEN DecodedRuns(a.runs, a.kept) ELSE << >>,
     data_size |-> IF a.non_resident THEN a.data_size ELSE a.content_size]

Inverted ==
    /\ attributes = [k \in DOMAIN attributes |-> Expected(record[k])]
    /\ pc \in {"inode", "read", "done"} => Len(attributes) = WholeAttributes

\* No distance of the record is negative and as wide as a word.
Narrow ==
    \A k \in DOMAIN record : \A i \in DOMAIN record[k].runs :
        LET d == record[k].runs[i].offset IN d < 0 => OffsetLen(d) < WORD

\* parse_mft_record and parse_run_list together invert the format: the walk
\* finds the attributes that are all there, in their order, with their names,
\* contents and runs, and never one more, wherever the buffer ends
\* (ntfs.rs 483-644).
RecordInvertsLayout == Narrow => Inverted

\* The unnamed Data attributes of the record, as far as it is in the buffer.
FileData == {k \in 1 .. WholeAttributes : record[k].attr_type = "Data" /\ record[k].name_length = 0}

\* The size of the file the runs describe.
RunsSize(list) ==
    LET total[k \in 0 .. Len(list)] ==
            IF k = 0 THEN 0 ELSE total[k - 1] + list[k].length * cluster_size
    IN  total[Len(list)]

\* Inode::read reads the file and not one of its other streams: a file kept in
\* its record gives exactly the bytes between the offset and its end that the
\* buffer has room for, and one in runs never more than the buffer or the
\* runs hold (ntfs.rs 361-428).
ReadServesFile ==
    pc \in {"read", "done"} =>
        /\ file_offset = start + bytes_read
        /\ FileData # {}
        /\ LET d == record[Min(FileData)]
           IN  IF d.non_resident
               THEN bytes_read <= Min({len, RunsSize(DecodedRuns(d.runs, d.kept))})
               ELSE bytes_read = Min({len, Max({0, d.content_size - start})})

\* The walk and the loops of parse_run_list and read_from_runs come to their
\* end on every record and list, whole or not.
LoopsEnd ==
    /\ pc = "begin" ~> pc \in {"inode", "refused"}
    /\ pc = "read" ~> pc = "done"

-----------------------------------------------------------------------------
(* What the code does not do; each is violated. *)

\* The format is inverted whatever the distances are (ntfs.rs 636).
WideRunsInvert == Inverted

\* A read through runs returns all the bytes there are between its offset and
\* the end of the runs, up to the length of the buffer.
ReadIsComplete ==
    pc = "done" /\ record[Min(FileData)].non_resident =>
        bytes_read = Min({len, Max({0, RunsSize(runs) - start})})

\* metadata.size is the size of what read reads.
SizeIsOfData ==
    pc \in {"read", "done"} => size = DataAttribute.data_size
=============================================================================
