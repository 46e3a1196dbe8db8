----------------------------- MODULE MCPlePager -----------------------------
(* Instances of PlePager for TLC: tensors, files and requests. *)
EXTENDS PlePager

Geometry(offset, count, bytes, file, buffer, depth, map) ==
  [tensor_offset |-> offset, tensor_bytes |-> count * bytes,
   row_count |-> count, row_bytes |-> bytes, alignment |-> 2,
   file_bytes |-> file, buffer_bytes |-> buffer, io_depth |-> depth,
   mapped |-> map]

\* rows of three bytes across sectors of two, the last sector cut off by the end
\* of the file; an arena of one, two or three sectors (and a byte no sector
\* uses), or of less than one; one lane, two lanes, more lanes than sectors fit;
\* the mapping
Geometries ==
  {Geometry(2, 3, 3, 11, 3, 4, FALSE), Geometry(2, 3, 3, 11, 5, 2, FALSE),
   Geometry(2, 3, 3, 11, 6, 2, FALSE), Geometry(1, 3, 2, 7, 4, 1, FALSE),
   Geometry(2, 3, 3, 11, 1, 1, FALSE), Geometry(2, 3, 3, 11, 4, 1, TRUE)}

\* neighbours share a sector, a row asked twice, the last row, all of the rows
\* out of order, no such row
RowLists == {<<0>>, <<2, 0, 1>>, <<2, 2>>, <<0, 3>>}

TwoCallers == {"a", "b"}
==============================================================================
