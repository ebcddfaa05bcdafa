---------------------------- MODULE RoomLogStream ----------------------------
(***************************************************************************)
(* RoomLog against RoomStream.  The stream is the segments' lines, segment *)
(* by segment, which is the order list_messages reads them in; what an     *)
(* agent received is its inbox.                                            *)
(***************************************************************************)
EXTENDS RoomLog

Seqs == INSTANCE SequencesExt

\* Segments are numbered 1..n without a gap, so segs is a sequence of files.
Stream == Seqs!FlattenSeq(segs)

Room == INSTANCE RoomStream WITH stream <- Stream, received <- inbox

\* A room with one writer at a time is an append-only stream, and its polls
\* hand each agent a gap-free, duplicate-free beginning of it.
ImplementsStream == Room!Spec

=============================================================================
