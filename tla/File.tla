-------------------------------- MODULE File --------------------------------
(***************************************************************************)
(* What a FileHandle promises to the program that uses it: a sequence of   *)
(* bytes, the position the program is told (tell), and the place where the *)
(* next byte is really read or written.  Each step is the answer to one    *)
(* operation with its arguments.                                           *)
(*                                                                         *)
(* How far the handle reads ahead is its own affair, and nothing depends   *)
(* on it, with these exceptions: a flush or a close goes on behind what    *)
(* was read ahead, without telling; and peek answers with any byte of a    *)
(* handle that still holds a block of which no byte is left.  Opening a    *)
(* handle again starts at the front and tells the position of before.      *)
(* Only these bring the two positions apart, and a seek to a place outside *)
(* the bytes that are held brings them together again.                     *)
(***************************************************************************)
EXTENDS Integers, Sequences

CONSTANTS
  Byte, Newline, Hole,   \* bytes; the end of a line; what fills a gap
  BlockSize              \* the most that is read ahead

VARIABLES
  asked,                 \* the operation asked for, with its arguments
  mode,                  \* how the file is opened
  content,               \* the bytes of the file, the buffered ones included
  pos,                   \* the position the program is told
  at,                    \* where the next byte is really taken or put
  ahead,                 \* the number of bytes held from there on
  reply                  \* the answer to the operation

fileVars == <<asked, mode, content, pos, at, ahead, reply>>

Nothing == -1            \* no block is held

Appends == mode = "ra"
Truncates(m) == m \in {"rw", "rw lines"}

FileMax(a, b) == IF a < b THEN b ELSE a
FileMin(a, b) == IF a < b THEN a ELSE b

(* The bytes of f from position p on, at most n of them. *)
Slice(f, p, n) == SubSeq(f, p + 1, FileMin(Len(f), p + n))

(* f after the bytes s have been written at position p. *)
Overlay(f, p, s) ==
  IF s = <<>> THEN f
  ELSE [i \in 1..FileMax(Len(f), p + Len(s)) |->
          IF i \in p + 1 .. p + Len(s) THEN s[i - p]
          ELSE IF i <= Len(f) THEN f[i] ELSE Hole]

(* The length of the line that starts at position p of f. *)
LineLength(f, p) ==
  LET ends == {i \in p + 1 .. Len(f) : f[i] = Newline}
  IN  IF ends # {} THEN (CHOOSE i \in ends : \A j \in ends : i <= j) - p
      ELSE FileMax(0, Len(f) - p)

(* A block may be held, up to the end of the file. *)
Fetched ==
  \/ ahead' = Nothing
  \/ ahead' \in 0..BlockSize /\ at' + ahead' <= Len(content')

(* n bytes are asked for: all of them are given, but for the end of the file. *)
Take(n) ==
  /\ reply' = Slice(content, at, n)
  /\ at' = at + Len(reply')
  /\ pos' = pos + Len(reply')
  /\ n < ahead => ahead' = ahead - n
  /\ n = ahead => ahead' = Nothing
  /\ n > ahead => Fetched
  /\ UNCHANGED <<mode, content>>

FileRead == asked'.op = "read" /\ Take(asked'.bytes)

FileReadLine == asked'.op = "readline" /\ Take(LineLength(content, at))

(* The next byte, which is not consumed. *)
FilePeek ==
  /\ asked'.op = "peek"
  /\ IF ahead = 0 THEN \E b \in Byte : reply' = <<b>> ELSE reply' = Slice(content, at, 1)
  /\ IF ahead = Nothing THEN Fetched ELSE UNCHANGED ahead
  /\ UNCHANGED <<mode, content, pos, at>>

(* Writing starts at the end if the file is open for appending, and then the
   program is told where that was; else where it was told to be, if a block has
   been read ahead, or where it is. *)
FileWrite ==
  /\ asked'.op = "write"
  /\ LET s == asked'.data
         base == IF Appends THEN Len(content) ELSE IF ahead # Nothing THEN pos ELSE at
     IN  IF s = <<>> THEN UNCHANGED <<content, at, pos, ahead>>
         ELSE /\ content' = Overlay(content, base, s)
              /\ at' = base + Len(s)
              /\ pos' = IF Appends THEN at' ELSE pos + Len(s)
              /\ ahead' = Nothing
  /\ reply' = <<>>
  /\ UNCHANGED mode

(* A seek may stay within the block that is held; then the distance of the two
   positions stays, too. *)
FileSeek ==
  /\ asked'.op = "seek"
  /\ pos' = asked'.to
  /\ \/ at' = pos' /\ ahead' = Nothing
     \/ /\ ahead # Nothing /\ pos' < pos + ahead
        /\ at' = at + (pos' - pos) /\ ahead' = ahead - (pos' - pos)
  /\ reply' = <<>>
  /\ UNCHANGED <<mode, content>>

FileSeekEnd ==
  /\ asked'.op = "seek to end"
  /\ at' = Len(content) /\ pos' = at' /\ ahead' = Nothing
  /\ reply' = <<>>
  /\ UNCHANGED <<mode, content>>

(* What was written stays; what was read ahead is dropped. *)
FileFlush ==
  /\ asked'.op \in {"flush", "close"}
  /\ at' = IF ahead = Nothing THEN at ELSE at + ahead
  /\ ahead' = Nothing
  /\ reply' = <<>>
  /\ UNCHANGED <<mode, content, pos>>

FileOpen ==
  /\ asked'.op = "open"
  /\ mode' = asked'.mode
  /\ content' = IF Truncates(mode') THEN <<>> ELSE content
  /\ at' = 0 /\ ahead' = Nothing /\ reply' = <<>>
  /\ UNCHANGED pos

FileInit == content \in Seq(Byte) /\ pos = 0 /\ at = 0 /\ ahead = Nothing /\ reply = <<>>

FileNext ==
  \/ FileRead \/ FileReadLine \/ FilePeek \/ FileWrite
  \/ FileSeek \/ FileSeekEnd \/ FileFlush \/ FileOpen

FileSpec == FileInit /\ [][FileNext]_fileVars
=============================================================================
