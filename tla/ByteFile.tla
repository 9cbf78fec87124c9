------------------------------ MODULE ByteFile ------------------------------
(***************************************************************************)
(* What littlefs promises of a file that one handle is open on: reading    *)
(* returns what was written, and what is on flash changes at sync and      *)
(* close only, all at once. An operation that fails leaves the handle's    *)
(* content open until it is closed, and the file on flash as it was.       *)
(***************************************************************************)
EXTENDS Integers, Sequences

CONSTANTS Zero   \* the word a gap is filled with

VARIABLES
  saved,    \* content on flash
  mode,     \* "closed", "open", or "erred" after an operation that failed
  content, pos,
  ret       \* what the last operation returned, if it was a read

vars == <<saved, mode, content, pos, ret>>

Zeros(n) == [i \in 1 .. n |-> Zero]

(* Content after data was written at p, a gap before it filled with zeros. *)
Written(c, p, data) ==
  LET filled == IF p > Len(c) THEN c \o Zeros(p - Len(c)) ELSE c
  IN SubSeq(filled, 1, p) \o data \o SubSeq(filled, p + Len(data) + 1, Len(filled))

Cut(c, size) ==
  IF size <= Len(c) THEN SubSeq(c, 1, size) ELSE c \o Zeros(size - Len(c))

Init ==
  /\ saved = <<>> /\ mode = "closed"
  /\ content = <<>> /\ pos = 0 /\ ret = <<>>

Open(truncated) ==
  /\ mode = "closed" /\ mode' = "open"
  /\ content' = IF truncated THEN <<>> ELSE saved
  /\ pos' = 0 /\ ret' = <<>> /\ UNCHANGED saved

Read(n) ==
  /\ mode = "open"
  /\ ret' = SubSeq(content, pos + 1, IF pos + n < Len(content) THEN pos + n ELSE Len(content))
  /\ pos' = pos + Len(ret')
  /\ UNCHANGED <<saved, mode, content>>

Write(data, appends) ==
  LET start == IF appends /\ pos < Len(content) THEN Len(content) ELSE pos
  IN /\ mode = "open"
     /\ content' = Written(content, start, data)
     /\ pos' = start + Len(data)
     /\ ret' = <<>> /\ UNCHANGED <<saved, mode>>

Seek(p) ==
  /\ mode = "open" /\ pos' = p
  /\ ret' = <<>> /\ UNCHANGED <<saved, mode, content>>

Truncate(size) ==
  /\ mode = "open" /\ content' = Cut(content, size)
  /\ ret' = <<>> /\ UNCHANGED <<saved, mode, pos>>

Sync ==
  /\ mode = "open" /\ saved' = content
  /\ ret' = <<>> /\ UNCHANGED <<mode, content, pos>>

Close ==
  /\ mode # "closed" /\ mode' = "closed"
  /\ saved' = IF mode = "open" THEN content ELSE saved
  /\ content' = <<>> /\ pos' = 0 /\ ret' = <<>>

(* An operation fails, or works on a handle that failed before.            *)
Fail ==
  /\ mode # "closed" /\ mode' = "erred" /\ (mode = "open" => ret' = <<>>)
  /\ content' = <<>> /\ pos' = 0 /\ UNCHANGED saved

(* An operation fails, and only the position is lost.                      *)
Stop ==
  /\ mode = "open" /\ pos' \in 0 .. Len(content)
  /\ ret' = <<>> /\ UNCHANGED <<saved, mode, content>>

(* A write works after others have failed; nothing is promised of it.      *)
Recover ==
  /\ mode = "erred" /\ mode' = "open" /\ ret' = <<>> /\ UNCHANGED saved

PowerLoss ==
  /\ mode' = "closed" /\ content' = <<>> /\ pos' = 0 /\ ret' = <<>> /\ UNCHANGED saved

(* Every operation, with the position or size it was given.                *)
Next(n, data) ==
  \/ \E truncated \in BOOLEAN : Open(truncated)
  \/ Read(n) \/ Write(data, FALSE) \/ Seek(n) \/ Truncate(n)
  \/ Sync \/ Close \/ Fail \/ Stop \/ Recover \/ PowerLoss
=============================================================================
