----------------------------- MODULE JsonPrint -----------------------------
(***************************************************************************)
(* cJSON_PrintUnformatted, cJSON_Print, cJSON_PrintBuffered and            *)
(* cJSON_PrintPreallocated (src/main/cJSON.c) on a tree that cJSON_Parse   *)
(* has built: print_value writes piece by piece into a buffer, and ensure  *)
(* makes room for each piece, or fails.                                    *)
(*                                                                         *)
(* A piece is what is written between two calls of ensure: its token, the  *)
(* characters it takes, those it asks ensure for, and whether it ends with *)
(* a zero.  Only the number of characters matters; token "v" stands for    *)
(* the four of null and true, and "s" for a string of Quoted characters    *)
(* with its quotes and escapes.  A piece of white space has NoToken.        *)
(***************************************************************************)
EXTENDS JsonParse

CONSTANTS
    Quoted,      \* the length of a printed string
    Sizes,       \* the sizes of the buffers that callers bring
    Default      \* default_buffer_size

ASSUME SizesAssumption == Quoted \in Nat /\ Sizes \subseteq Nat /\ Default \in Nat

VARIABLE printed   \* the last call and the printbuffer it has returned

printVars == <<parseVars, printed>>

NoToken == "none"
Piece(token, chars, needed, zero) ==
    [token |-> token, chars |-> chars, needed |-> needed, zero |-> zero]

plus(format, n) == IF format THEN n + 1 ELSE n   \* with a space or a line break
quoted == Piece("s", Quoted, Quoted + 1, TRUE)

\* print_object, in front of a member: its name.
Label(node, format, depth) ==
    IF node.string
    THEN (IF format THEN <<Piece(NoToken, depth, depth, FALSE)>> ELSE <<>>)
         \o <<quoted, Piece(":", plus(format, 1), plus(format, 1), FALSE)>>
    ELSE <<>>

\* print_array and print_object, up to the first element and after the last.
Opening(node, format) ==
    IF node.type = "Array" THEN <<Piece("[", 1, 1, FALSE)>>
    ELSE <<Piece("{", plus(format, 1), plus(format, 1) + 1, FALSE)>>
Closing(node, format, depth) ==
    IF node.type = "Array" THEN <<Piece("]", 1, 2, TRUE)>>
    ELSE LET tabs == IF format THEN depth ELSE 0
         IN  <<Piece("}", tabs + 1, tabs + 2, TRUE)>>

\* The same between two elements; a member has a line to end even if it is the last.
Between(node, format) ==
    LET token == IF node.next = NULL THEN NoToken ELSE ","
        length == plus(format, IF node.next = NULL THEN 0 ELSE 1)
    IN  IF ~node.string /\ node.next = NULL THEN <<>>
        ELSE <<Piece(token, length, length + 1, TRUE)>>

\* print_value: the pieces of a node and of those behind it, by their depth.
Pieces(format) ==
    LET pieces[m \in 0..Len(heap)] ==
            [depth \in Nat |->
                IF m = NULL THEN <<>>
                ELSE Label(heap[m], format, depth)
                     \o (CASE heap[m].type = "Value" -> <<Piece("v", 4, 5, TRUE)>>
                           [] heap[m].type = "String" -> <<quoted>>
                           [] heap[m].type \in {"Array", "Object"} ->
                                  Opening(heap[m], format)
                                  \o pieces[heap[m].child][depth + 1]
                                  \o Closing(heap[m], format, depth))
                     \o (IF m = Root THEN <<>> ELSE Between(heap[m], format))
                     \o pieces[heap[m].next][depth]]
    IN  pieces[Root][0]

\* Mutant: the characters in front are not counted.
EnsureShort(p, needed, noalloc, grows) ==
    LET total == needed + 1
    IN  IF total <= p.length THEN p
        ELSE IF noalloc THEN [p EXCEPT !.ok = FALSE]
        ELSE IF grows THEN [p EXCEPT !.length = 2 * total]
        ELSE [p EXCEPT !.ok = FALSE, !.freed = TRUE]

\* Mutant: what has been printed is not copied to the new buffer.
EnsureForgets(p, needed, noalloc, grows) ==
    LET total == needed + p.offset + 1
    IN  IF p.length > 0 /\ p.offset >= p.length THEN [p EXCEPT !.ok = FALSE]
        ELSE IF total <= p.length THEN p
        ELSE IF noalloc THEN [p EXCEPT !.ok = FALSE]
        ELSE IF grows THEN [p EXCEPT !.length = 2 * total, !.out = <<>>]
        ELSE [p EXCEPT !.ok = FALSE, !.freed = TRUE]

\* ensure: room for needed characters behind the offset.
Ensure(p, needed, noalloc, grows) ==
    LET total == needed + p.offset + 1
    IN  IF p.length > 0 /\ p.offset >= p.length THEN [p EXCEPT !.ok = FALSE]
        ELSE IF total <= p.length THEN p
        ELSE IF noalloc THEN [p EXCEPT !.ok = FALSE]
        ELSE IF grows THEN [p EXCEPT !.length = 2 * total]
        ELSE [p EXCEPT !.ok = FALSE, !.freed = TRUE]   \* realloc has failed

\* Writing a piece, and update_offset.
Write(p, piece, noalloc, grows) ==
    LET q == Ensure(p, piece.needed, noalloc, grows)
        end == q.offset + piece.chars + (IF piece.zero THEN 1 ELSE 0)
    IN  IF ~p.ok \/ ~q.ok THEN [q EXCEPT !.ok = FALSE]
        ELSE [q EXCEPT !.out = IF piece.token = NoToken THEN @ ELSE Append(@, piece.token),
                       !.offset = @ + piece.chars,
                       !.beyond = @ \/ end > q.length]

\* What is in an empty buffer after each of the pieces.
Empty(size) ==
    [out |-> <<>>, offset |-> 0, length |-> size, ok |-> TRUE, freed |-> FALSE, beyond |-> FALSE]
PrintValue(size, format, noalloc, grows) ==
    LET pieces == Pieces(format)
        after[n \in 0..Len(pieces)] ==
            IF n = 0 THEN Empty(size) ELSE Write(after[n - 1], pieces[n], noalloc, grows)
    IN  after[Len(pieces)]

-----------------------------------------------------------------------------
(* Calls *)

Idle == [call |-> "none"]
Result(call, size, format, p) == [call |-> call, size |-> size, format |-> format, buffer |-> p]

\* cJSON_PrintPreallocated
PrintPreallocated(size, format) ==
    printed' = Result("preallocated", size, format, PrintValue(size, format, TRUE, FALSE))

\* cJSON_PrintBuffered; the buffer may not be had, or not grow.
PrintBuffered(size, format) ==
    \E grows \in BOOLEAN :
        printed' = Result("buffered", size, format, PrintValue(size, format, FALSE, grows))

\* print: the buffer is cut to the text at the end.
print(format) ==
    \E grows \in BOOLEAN :
        LET p == PrintValue(Default, format, FALSE, grows)
        IN  printed' = Result("print", Default, format,
                IF ~p.ok THEN p
                ELSE IF grows THEN [p EXCEPT !.length = p.offset + 1]
                ELSE [p EXCEPT !.ok = FALSE, !.freed = TRUE])

PrintTree ==
    /\ pc = "accepted"
    /\ printed = Idle
    /\ \E format \in BOOLEAN :
           \/ print(format)
           \/ \E size \in Sizes : PrintPreallocated(size, format) \/ PrintBuffered(size, format)
    /\ UNCHANGED parseVars

PrintInit == Init /\ printed = Idle
PrintNext == PrintTree \/ (ParseNext /\ printed = Idle /\ UNCHANGED printed)

-----------------------------------------------------------------------------
(* Properties *)

Returns == printed # Idle /\ printed.buffer.ok

\* What is printed is what was parsed, formatted or not, however often the
\* buffer had to grow.
PrintsWhatWasParsed == Returns => printed.buffer.out = text

\* No piece is written past the end of its buffer and a text that is returned
\* ends within it; and cJSON_PrintPreallocated prints whatever leaves one byte
\* of its buffer free (inc/cJSON.h:162 asks for five, "to be safe").
BufferSuffices ==
    printed # Idle =>
        /\ ~printed.buffer.beyond
        /\ printed.buffer.ok => printed.buffer.offset < printed.buffer.length
        /\ printed.call = "preallocated" =>
               LET whole == PrintValue(0, printed.format, FALSE, TRUE)
               IN  printed.size > whole.offset + 1 => printed.buffer.ok
=============================================================================
