------------------------------ MODULE IoBuffer ------------------------------
(***************************************************************************)
(* The buffer of a FileHandle of Parrot (parrot/src/io/buffer.c) over a    *)
(* file of the operating system: reads, lines, peeks, writes and seeks     *)
(* that share one block of memory, which holds either bytes read ahead or  *)
(* bytes not yet written.                                                  *)
(*                                                                         *)
(* A handle is a record, for its functions call each other; encodings of   *)
(* one byte per character, files that answer a read in full.               *)
(***************************************************************************)
EXTENDS Integers, Sequences

CONSTANTS
  Byte, Newline, Hole,
  Data,                  \* bound: what the program writes at once
  MaxRead,               \* bound: how much it asks for at once
  MaxFile,               \* bound: the length of the file, and how far a position
                         \* is when more is written or the handle opened again
  BufferSize,
  Modes                  \* bound: how the file is opened

ASSUME IoAssumption ==
  /\ {Newline, Hole} \subseteq Byte
  /\ Data \subseteq Seq(Byte)
  /\ BufferSize \in Nat \ {0} /\ MaxFile \in Nat /\ MaxRead \in Nat
  /\ Modes \subseteq {"r", "rw", "rw lines", "ra"}

VARIABLES
  io,         \* the handle and the file below it
  operation,  \* the operation called last, with its arguments
  answer      \* what it returned

ioVars == <<io, operation, answer>>

NoEnd == -1              \* buffer_end is NULL

Handle ==
  [open : BOOLEAN, mode : Modes,
   file : Seq(Byte),     \* what the operating system holds
   offset : Nat,         \* and where it reads or writes next
   file_pos : Nat,
   mem : [1..BufferSize -> Byte],
   next : 0..BufferSize,             \* buffer_next and buffer_end,
   end : {NoEnd} \cup 1..BufferSize, \* from buffer_start
   holds : {"nothing", "read", "write"},  \* PIO_BF_READBUF, PIO_BF_WRITEBUF
   eof : BOOLEAN]

IoMax(a, b) == IF a < b THEN b ELSE a
IoMin(a, b) == IF a < b THEN a ELSE b

Logical == INSTANCE File WITH
  BlockSize <- BufferSize, asked <- <<>>, mode <- "r", content <- <<>>, pos <- 0, at <- 0,
  ahead <- 0, reply <- <<>>

Slice(f, p, n) == Logical!Slice(f, p, n)
Overlay(f, p, s) == Logical!Overlay(f, p, s)

(* The first bytes of memory m replaced by s. *)
Store(m, p, s) == [i \in DOMAIN m |-> IF i \in p + 1 .. p + Len(s) THEN s[i - p] ELSE m[i]]

PIO_WRITE(h, s) ==
  LET p == IF h.mode = "ra" THEN Len(h.file) ELSE h.offset
  IN  [h EXCEPT !.file = Overlay(h.file, p, s), !.offset = p + Len(s)]

(* Parrot_io_flush_buffer *)
Flush(h) ==
  CASE h.holds = "write" -> [PIO_WRITE(h, SubSeq(h.mem, 1, h.next)) EXCEPT !.next = 0, !.holds = "nothing"]
    [] h.holds = "read" -> [h EXCEPT !.next = 0, !.holds = "nothing"]
    [] OTHER -> h

(* What a read first does with bytes not yet written. *)
FlushWrites(h) == IF h.holds = "write" THEN Flush(h) ELSE h

(* Parrot_io_fill_readbuf *)
Fill(h) ==
  LET got == Slice(h.file, h.offset, BufferSize)
  IN  IF got = <<>> THEN [h EXCEPT !.eof = TRUE]
      ELSE [h EXCEPT !.mem = Store(h.mem, 0, got), !.offset = @ + Len(got),
                     !.end = Len(got), !.next = 0, !.holds = "read"]

(* The handle after n buffered bytes have been consumed; the emptied buffer
   is given up. *)
Consume(h, n) ==
  IF h.next + n = h.end
  THEN [h EXCEPT !.holds = "nothing", !.end = NoEnd, !.next = 0, !.file_pos = @ + n]
  ELSE [h EXCEPT !.next = @ + n, !.file_pos = @ + n]

Available(h) == IF h.holds = "read" THEN h.end - h.next ELSE 0

(* Parrot_io_read_buffer for what the buffer cannot answer: a large read
   passes it by; a small one refills it, and compares with the buffer's end
   as it was before, so that it does not give the buffer up when it empties
   it. *)
ReadRest(h, oldEnd, n) ==
  IF n >= BufferSize
  THEN LET got == Slice(h.file, h.offset, n)
       IN  [handle |-> [h EXCEPT !.offset = @ + Len(got), !.file_pos = @ + Len(got),
                                 !.eof = @ \/ got = <<>>],
            bytes |-> got]
  ELSE LET f == Fill(h)
           n1 == IoMin(n, Len(Slice(h.file, h.offset, BufferSize)))
       IN  [handle |-> IF f.next = oldEnd
                       THEN [f EXCEPT !.holds = "nothing", !.end = NoEnd, !.next = 0, !.file_pos = @ + n1]
                       ELSE [f EXCEPT !.next = @ + n1, !.file_pos = @ + n1],
            bytes |-> SubSeq(f.mem, f.next + 1, f.next + n1)]

(* Parrot_io_read_buffer *)
ReadBuffer(h0, n) ==
  LET h == FlushWrites(h0)
      current == IoMin(Available(h), n)
      taken == SubSeq(h.mem, h.next + 1, h.next + current)
      h1 == IF h.holds = "read" THEN Consume(h, current) ELSE h
      rest == ReadRest(h1, h.end, n - current)
  IN  IF h.holds = "read" /\ current = n THEN [handle |-> h1, bytes |-> taken]
      ELSE [rest EXCEPT !.bytes = taken \o @]

(* Parrot_io_readline_buffer: the buffer is scanned for the separator and
   refilled until it is found or the file ends. *)
ReadLineBuffer(h0) ==
  LET h == FlushWrites(h0)
      start == IF h.holds = "read" THEN h ELSE Fill(h)
      line[g \in Handle] ==
        LET n == Logical!LineLength(SubSeq(g.mem, 1, g.end), g.next)
            part == SubSeq(g.mem, g.next + 1, g.next + n)
            found == n > 0 /\ part[n] = Newline
            more == Fill(g)
        IN  IF found THEN [handle |-> Consume(g, n), bytes |-> part]
            ELSE IF Slice(g.file, g.offset, BufferSize) = <<>>
            THEN [handle |-> Consume(more, n), bytes |-> part]
            ELSE LET later == line[[more EXCEPT !.file_pos = @ + n]]
                 IN  [later EXCEPT !.bytes = part \o @]
  IN  IF start.holds # "read" THEN [handle |-> start, bytes |-> <<>>] ELSE line[start]

(* Variant: the operating system goes on from behind the read-ahead. *)
DropReadAheadOnly(h) ==
  IF h.holds # "read" THEN h ELSE [h EXCEPT !.holds = "nothing", !.next = 0]

(* Parrot_io_write_buffer after read-ahead has been dropped. *)
DropReadAhead(h) ==
  IF h.holds # "read" THEN h
  ELSE [h EXCEPT !.holds = "nothing", !.next = 0,
                 !.offset = IF h.mode = "ra" THEN @ ELSE h.file_pos]

Buffered(h, s) ==
  LET avail == BufferSize - (IF h.holds = "write" THEN h.next ELSE 0)
      full == Flush([h EXCEPT !.mem = Store(h.mem, h.next, SubSeq(s, 1, avail)), !.next = @ + avail])
      rest == SubSeq(s, avail + 1, Len(s))
  IN  IF Len(s) < avail
      THEN [h EXCEPT !.holds = "write", !.mem = Store(h.mem, h.next, s), !.next = @ + Len(s)]
      ELSE IF rest = <<>> THEN full
      ELSE [full EXCEPT !.holds = "write", !.mem = Store(full.mem, 0, rest), !.next = Len(rest)]

NeedFlush(h, s) ==
  \/ h.mode = "ra"
  \/ h.mode = "rw lines" /\ \E i \in DOMAIN s : s[i] = Newline

WriteBuffer(h0, s) ==
  LET h == DropReadAhead(h0)
      written == IF NeedFlush(h, s) \/ Len(s) >= BufferSize THEN PIO_WRITE(Flush(h), s)
                 ELSE Buffered(h, s)
  IN  IF s = <<>> THEN h0
      ELSE [written EXCEPT !.file_pos = IF h.mode = "ra" THEN written.offset ELSE @ + Len(s)]

(* Parrot_io_seek_buffer. A seek from the current position is turned into one
   from the start of the file, which may stay inside the bytes read ahead; a
   seek from the end may not. *)
Inside(h, to) ==
  h.holds = "read" /\ to >= h.file_pos - h.next /\ to < h.file_pos + (h.end - h.next)

(* Variant: the end of the file stays met. *)
SeekOutsideKeepingEof(h, to) == [h EXCEPT !.offset = to, !.file_pos = to]

SeekOutside(h, to) == [h EXCEPT !.offset = to, !.eof = FALSE, !.file_pos = to]

SeekBuffer(h, to) ==
  IF Inside(h, to) THEN [h EXCEPT !.next = @ + (to - h.file_pos), !.file_pos = to]
  ELSE SeekOutside(Flush(h), to)
-----------------------------------------------------------------------------
(* A new handle: the attributes that init sets. *)
Closed ==
  [open |-> FALSE, mode |-> CHOOSE m \in Modes : TRUE, file |-> <<>>, offset |-> 0, file_pos |-> 0,
   mem |-> [i \in 1..BufferSize |-> Hole], next |-> 0, end |-> NoEnd,
   holds |-> "nothing", eof |-> FALSE]

(* Parrot_io_open_handle, with the buffer of Parrot_io_setbuf: opening for
   writing truncates the file; file_pos is left as it is. *)
Opened(h, m) ==
  [h EXCEPT !.open = TRUE, !.mode = m, !.eof = FALSE, !.offset = 0,
            !.file = IF Logical!Truncates(m) THEN <<>> ELSE @,
            !.mem = [i \in 1..BufferSize |-> Hole], !.next = 0]

IoInit ==
  /\ \E m \in Modes : io = Opened(Closed, m) /\ operation = [op |-> "open", mode |-> m]
  /\ answer = <<>>

IoRead(n) ==
  /\ operation' = [op |-> "read", bytes |-> n]
  /\ io.open
  /\ LET r == ReadBuffer(io, n)
     IN  io' = r.handle /\ answer' = r.bytes

IoReadLine ==
  /\ operation' = [op |-> "readline"]
  /\ io.open
  /\ LET r == ReadLineBuffer(io)
     IN  io' = r.handle /\ answer' = r.bytes

(* Parrot_io_peek_buffer. A read that emptied the buffer it had refilled left
   it marked as full: the byte is then taken from behind its end. *)
IoPeek ==
  /\ operation' = [op |-> "peek"]
  /\ io.open
  /\ LET h == FlushWrites(io)
         f == IF h.holds = "read" THEN h ELSE Fill(h)
     IN  /\ io' = f
         /\ IF f.holds # "read" THEN answer' = <<>>
            ELSE IF f.next < BufferSize THEN answer' = <<f.mem[f.next + 1]>>
            ELSE \E b \in Byte : answer' = <<b>>

IoWrite(s) ==
  /\ operation' = [op |-> "write", data |-> s]
  /\ io.open /\ io.mode \in {"rw", "rw lines", "ra"}
  /\ io' = WriteBuffer(io, s)
  /\ Len(io'.file) <= MaxFile /\ io'.file_pos <= MaxFile
  /\ answer' = <<>>

IoSeek(to) ==
  /\ operation' = [op |-> "seek", to |-> to]
  /\ io.open
  /\ io' = SeekBuffer(io, to)
  /\ answer' = <<>>

IoSeekEnd ==
  /\ operation' = [op |-> "seek to end"]
  /\ io.open
  /\ io' = SeekOutside(Flush(io), Len(Flush(io).file))
  /\ answer' = <<>>

IoFlush ==
  /\ operation' = [op |-> "flush"]
  /\ io.open
  /\ io' = Flush(io)
  /\ answer' = <<>>

(* Parrot_io_close_filehandle *)
IoClose ==
  /\ operation' = [op |-> "close"]
  /\ io.open
  /\ io' = [Flush(io) EXCEPT !.open = FALSE]
  /\ answer' = <<>>

IoOpen(m) ==
  /\ operation' = [op |-> "open", mode |-> m]
  /\ ~io.open /\ io.file_pos <= MaxFile
  /\ io' = Opened(io, m)
  /\ answer' = <<>>

IoNext ==
  \/ \E n \in 0..MaxRead : IoRead(n)
  \/ IoReadLine \/ IoPeek \/ IoSeekEnd \/ IoFlush \/ IoClose
  \/ \E s \in Data : IoWrite(s)
  \/ \E to \in 0..MaxFile : IoSeek(to)
  \/ \E m \in Modes : IoOpen(m)

IoSpec == IoInit /\ [][IoNext]_ioVars
-----------------------------------------------------------------------------
(* The bytes held from where the next byte is taken, that place, and the file
   as the program sees it: with the bytes that are still in the buffer. *)
IoAhead == IF io.holds = "read" THEN io.end - io.next ELSE Logical!Nothing

IoAt ==
  CASE io.holds = "read" -> io.offset - (io.end - io.next)
    [] io.holds = "write" -> io.offset + io.next
    [] OTHER -> io.offset

IoContent ==
  IF io.holds = "write" THEN Overlay(io.file, io.offset, SubSeq(io.mem, 1, io.next)) ELSE io.file

Promised == INSTANCE File WITH
  BlockSize <- BufferSize, asked <- operation, mode <- io.mode, content <- IoContent,
  pos <- io.file_pos, at <- IoAt, ahead <- IoAhead, reply <- answer

(* However reads, lines, peeks, writes and seeks share the buffer, each gives
   exactly the bytes that it is asked for, what was written included, and puts
   exactly what it is given at its place: the buffer is not seen, but for the
   exceptions that File names. *)
IoRefinesFile == Promised!FileSpec

(* eof() says so only where no byte of the file follows: neither one that is
   still in the buffer nor one written after the end was met. *)
IoEofAtEnd == io.eof => IoAt >= Len(IoContent)

(* peek gives the next byte of the file, or nothing at its end. *)
IoPeekRight == [][IoPeek => answer' = Slice(IoContent, IoAt, 1)]_ioVars
=============================================================================
