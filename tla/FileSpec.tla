----------------------------- MODULE FileSpec -----------------------------
(***************************************************************************)
(* What an open file promises its user (doc/API/api_file.html): a sequence *)
(* of bytes with a position. Writing replaces bytes and extends the file,  *)
(* reading and seeking change no byte, nor does closing and opening it.    *)
(***************************************************************************)
EXTENDS Integers, Sequences

CONSTANTS
  Bytes,    \* the values of a byte
  MaxChunk  \* bytes moved by one turn of reading or writing

VARIABLES
  content,  \* the bytes of the file
  position, \* where the next one is read or written
  isOpen

vars == <<content, position, isOpen>>

Init == content = <<>> /\ position = 0 /\ isOpen = FALSE

Open == /\ ~isOpen
        /\ isOpen' = TRUE /\ position' = 0
        /\ UNCHANGED content

Close == /\ isOpen
         /\ isOpen' = FALSE /\ position' = 0
         /\ UNCHANGED content

Write(n, b) ==
  /\ isOpen
  /\ content' = [i \in 1..(IF position + n > Len(content) THEN position + n
                                                          ELSE Len(content)) |->
                   IF i \in (position + 1)..(position + n) THEN b ELSE content[i]]
  /\ position' = position + n
  /\ UNCHANGED isOpen

Read(n) == /\ isOpen
           /\ position + n <= Len(content)
           /\ position' = position + n
           /\ UNCHANGED <<content, isOpen>>

Seek == /\ isOpen
        /\ position' \in 0..Len(content)
        /\ UNCHANGED <<content, isOpen>>

Truncate == /\ isOpen
            /\ position' \in 0..(Len(content) - 1)
            /\ content' = SubSeq(content, 1, position')
            /\ UNCHANGED isOpen

Next == \/ Open \/ Close \/ Seek \/ Truncate
        \/ \E n \in 1..MaxChunk : Read(n) \/ (\E b \in Bytes : Write(n, b))

Spec == Init /\ [][Next]_vars
=============================================================================
