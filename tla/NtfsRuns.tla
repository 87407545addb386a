------------------------------- MODULE NtfsRuns -------------------------------
(***************************************************************************)
(* The data runs of a non-resident NTFS attribute (src/src/fs/ntfs.rs):    *)
(* parse_run_list decodes the packed list, one run per iteration, and      *)
(* read_from_runs reads a range of the file through the decoded runs, one  *)
(* run per iteration.  A run is a number of clusters and the distance of   *)
(* its first cluster from that of the run before.                          *)
(*                                                                         *)
(* A byte is a number below NIBBLE^2 (256 in the code).  The encoder is    *)
(* the NTFS format itself, and the reference for the decoder.              *)
(***************************************************************************)
EXTENDS Integers, Sequences, FiniteSetsExt

CONSTANTS NIBBLE,        \* the values of a half byte (16)
          WORD,          \* the bytes of a u64 or i64 (8)
          cluster_size   \* bytes in a cluster

\* A half byte has bits, and no list of the format has fields wider than a
\* word.
ASSUME NtfsAssumption ==
    /\ NIBBLE \in Nat \ {0} /\ NIBBLE % 2 = 0 /\ WORD \in 1 .. NIBBLE - 1
    /\ cluster_size \in Nat \ {0}

VARIABLES file,         \* the run list of the attribute
          data,         \* its packed form, as much as the attribute holds
          pos,          \* parse_run_list's offset into data
          runs,         \* the runs decoded so far
          pc,
          start, len,   \* the read: its first byte and the buffer's length
          idx,          \* the run read_from_runs looks at
          current_cluster, bytes_read, file_offset

parser == <<file, data, pos, runs>>
reader == <<start, len, idx, current_cluster, bytes_read, file_offset>>
runs_vars == <<parser, pc, reader>>

BYTE == NIBBLE * NIBBLE

\* The values of k bytes.
Pow[k \in 0 .. NIBBLE] == IF k = 0 THEN 1 ELSE BYTE * Pow[k - 1]

\* A number as a u64.
Wrapped(n) == n % Pow[WORD]

-----------------------------------------------------------------------------
(***************************************************************************)
(* The packed form of a run: a header with the sizes of the two numbers,   *)
(* the length, and the signed distance, little-endian.  A sparse run has   *)
(* no distance.                                                            *)
(***************************************************************************)
\* The bytes needed for a length and for a signed distance.
SizeLen(n) == Min({k \in 1 .. WORD : n < Pow[k]})
OffsetLen(d) == Min({k \in 1 .. WORD : -Pow[k] <= 2 * d /\ 2 * d < Pow[k]})

LittleEndian(n, k) == [i \in 1 .. k |-> (n \div Pow[i - 1]) % BYTE]

PackedRun(r) ==
    LET s == SizeLen(r.length)
        o == IF r.sparse THEN 0 ELSE OffsetLen(r.offset)
    IN  <<o * NIBBLE + s>> \o LittleEndian(r.length, s) \o LittleEndian(r.offset % Pow[o], o)

\* The packed form of the first k runs of a list, and of all of them.
PackedRuns(list, k) ==
    LET packed[i \in 0 .. Len(list)] ==
            IF i = 0 THEN << >> ELSE packed[i - 1] \o PackedRun(list[i])
    IN  packed[k]
Packed(list) == PackedRuns(list, Len(list))

-----------------------------------------------------------------------------
(***************************************************************************)
(* parse_run_list.                                                         *)
(***************************************************************************)
\* The n bytes of data from offset p, as an unsigned number.
Unsigned(p, n) ==
    LET value[i \in 0 .. n] == IF i = 0 THEN 0 ELSE value[i - 1] + data[p + i] * Pow[i - 1]
    IN  value[n]

\* Fault: the sign is not extended.
SignedNoExtension(p, n) == Unsigned(p, n)

\* The same as a signed number: the top bit of the last byte is the sign.  A
\* negative number of a whole word comes out as -1: the mask for the bits above
\* it is shifted by 64, which is a shift by 0, and sets them all.
Signed(p, n) ==
    IF 2 * data[p + n] < BYTE THEN Unsigned(p, n)
    ELSE IF n < WORD THEN Unsigned(p, n) - Pow[n]
    ELSE -1

header == data[pos + 1]
size_len == header % NIBBLE
offset_len == header \div NIBBLE

\* The list does not end here, and the next run is all there.
RunFits ==
    /\ pos < Len(data)
    /\ header # 0
    /\ size_len # 0
    /\ pos + 1 + size_len + offset_len <= Len(data)

parse_run ==
    /\ pc = "parse"
    /\ RunFits
    /\ runs' = Append(runs, [length |-> Unsigned(pos + 1, size_len),
                             offset |-> IF offset_len = 0 THEN 0
                                        ELSE Signed(pos + 1 + size_len, offset_len)])
    /\ pos' = pos + 1 + size_len + offset_len
    /\ UNCHANGED <<file, data, pc, reader>>

\* Fault: a run that is not all there does not end the loop.
parse_endContinues ==
    /\ pc = "parse"
    /\ pos >= Len(data)
    /\ pc' = "parsed"
    /\ UNCHANGED <<parser, reader>>

parse_end ==
    /\ pc = "parse"
    /\ ~RunFits
    /\ pc' = "parsed"
    /\ UNCHANGED <<parser, reader>>

-----------------------------------------------------------------------------
(***************************************************************************)
(* read_from_runs.                                                         *)
(***************************************************************************)
read_from_runs(run_list, o, n) ==
    /\ runs' = run_list
    /\ start' = o /\ len' = n
    /\ idx' = 1 /\ current_cluster' = 0 /\ bytes_read' = 0 /\ file_offset' = o
    /\ pc' = "read"
    /\ UNCHANGED <<file, data, pos>>

\* How much of a run is read: what is left of it behind the position in the
\* file, which is compared with the position of the run on the disk, and at
\* most the room left in the buffer.
read_len(run, run_start_byte) ==
    Min({Wrapped(run.length * cluster_size) - Max({0, file_offset - run_start_byte}),
         len - bytes_read})

read_run ==
    /\ pc = "read"
    /\ idx <= Len(runs)
    /\ LET run == runs[idx]
           c == current_cluster + run.offset
           run_start_byte == Wrapped(c * cluster_size)
           run_end_byte == Wrapped(run_start_byte + run.length * cluster_size)
           skipped == file_offset >= run_end_byte
           n == read_len(run, run_start_byte)
           taken == IF skipped \/ bytes_read + n > len THEN 0 ELSE n
       IN  /\ current_cluster' = c
           /\ bytes_read' = bytes_read + taken
           /\ file_offset' = file_offset + taken
           /\ pc' = IF ~skipped /\ bytes_read + taken >= len THEN "done" ELSE "read"
    /\ idx' = idx + 1
    /\ UNCHANGED <<parser, start, len>>

read_end ==
    /\ pc = "read"
    /\ idx > Len(runs)
    /\ pc' = "done"
    /\ UNCHANGED <<parser, reader>>

Loops == parse_run \/ parse_end \/ read_run \/ read_end

-----------------------------------------------------------------------------
\* What decoding has to give: the runs of a list whose packed form lies wholly
\* in its first n bytes.
DecodedRuns(list, n) ==
    LET whole == Max({k \in 0 .. Len(list) : Len(PackedRuns(list, k)) <= n})
    IN  [i \in 1 .. whole |-> [length |-> list[i].length,
                               offset |-> IF list[i].sparse THEN 0 ELSE list[i].offset]]
=============================================================================
