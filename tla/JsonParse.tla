----------------------------- MODULE JsonParse -----------------------------
(***************************************************************************)
(* cJSON_Parse and cJSON_Delete (src/main/cJSON.c), through which every    *)
(* command of the server goes: the text is read token by token, the tree   *)
(* grows on the heap, and when anything fails every level of the recursion *)
(* frees its own part on the way out.  Any allocation may fail.            *)
(*                                                                         *)
(* A token "v" is a literal or a number, "s" a string, and "?" whatever    *)
(* cannot begin a token there, the end of the text included.  White space  *)
(* is left out.                                                            *)
(***************************************************************************)
EXTENDS Integers, Sequences, FiniteSets, SequencesExt, Functions

CONSTANTS
    MaxText,     \* bound: the tokens before a text ends
    DepthLimit   \* CJSON_NESTING_LIMIT

ASSUME TextAssumption == MaxText \in Nat
ASSUME DepthAssumption == DepthLimit \in Nat

VARIABLES
    pc,       \* where in the recursion
    text,     \* the tokens of the text that have been looked at
    pos,      \* input_buffer->offset
    frames,   \* the calls of parse_array and parse_object, innermost last
    heap,     \* the nodes that are allocated
    strings,  \* the number of strings that are allocated
    why,      \* history: what the parse failed for
    wild      \* history: a freed node has been freed again

parseVars == <<pc, text, pos, frames, heap, strings, why, wild>>

NULL == 0
Root == 1
Tok == {"v", "s", "[", "]", "{", "}", ",", ":", "?"}
Close == [Array |-> "]", Object |-> "}"]

Init ==
    /\ pc = "start" /\ text = <<>> /\ pos = 0 /\ frames = <<>>
    /\ heap = <<>> /\ strings = 0 /\ why = "none" /\ wild = FALSE

-----------------------------------------------------------------------------
(* Memory *)

Blank == [type |-> "Invalid", valuestring |-> FALSE, string |-> FALSE,
          child |-> NULL, next |-> NULL, prev |-> NULL]

New == Len(heap) + 1   \* nothing is freed while the tree still grows

\* The nodes cJSON_Delete(n) walks over, in order.
Walk(h, n) ==
    LET walk[m \in 0..Len(h)] ==
            IF m = NULL THEN <<>>
            ELSE walk[h[m].child] \o <<m>> \o walk[h[m].next]
    IN  walk[n]

Freed == "freed"
IsFreed(m) == heap[m].type = Freed

\* The number of strings that some nodes own.
Owned(h, nodes) ==
    Cardinality({m \in nodes : h[m].valuestring}) + Cardinality({m \in nodes : h[m].string})

Delete(n) ==
    LET nodes == Walk(heap, n)
    IN  /\ heap' = [m \in DOMAIN heap |->
                        IF Contains(nodes, m) THEN [heap[m] EXCEPT !.type = Freed] ELSE heap[m]]
        /\ strings' = strings - Owned(heap, Range(nodes))
        /\ wild' = (wild \/ \E m \in Range(nodes) : IsFreed(m) \/ \E x, y \in DOMAIN nodes :
                                 x # y /\ nodes[x] = nodes[y])

-----------------------------------------------------------------------------
(* Reading *)

\* The next token is t; later looks find the same.
Peek(t) ==
    IF pos < Len(text) THEN t = text[pos + 1] /\ UNCHANGED text
    ELSE t \in (IF Len(text) < MaxText THEN Tok ELSE {"?"}) /\ text' = Append(text, t)

Consume(t) == Peek(t) /\ pos' = pos + 1

Top == Last(frames)
Current == IF frames = <<>> THEN Root ELSE Top.last
Returned == IF frames = <<>> THEN "accepted" ELSE "after"

Fail(reason) == pc' = "fail" /\ why' = reason

\* cJSON_ParseWithLengthOpts
Start ==
    /\ pc = "start"
    /\ \/ heap' = <<Blank>> /\ pc' = "value" /\ UNCHANGED why
       \/ pc' = "refused" /\ why' = "memory" /\ UNCHANGED heap
    /\ UNCHANGED <<text, pos, frames, strings, wild>>

\* parse_value
Scalar ==
    /\ pc = "value"
    /\ Consume("v")
    /\ heap' = [heap EXCEPT ![Current].type = "Value"]
    /\ pc' = Returned
    /\ UNCHANGED <<frames, strings, why, wild>>

\* parse_string, for a value
StringValue ==
    /\ pc = "value"
    /\ \/ /\ Consume("s")
          /\ heap' = [heap EXCEPT ![Current].type = "String", ![Current].valuestring = TRUE]
          /\ strings' = strings + 1
          /\ pc' = Returned
          /\ UNCHANGED why
       \/ Peek("s") /\ Fail("memory") /\ UNCHANGED <<pos, heap, strings>>
    /\ UNCHANGED <<frames, wild>>

\* parse_array and parse_object up to their first element
OpenList(kind) ==
    /\ pc = "value"
    /\ IF Len(frames) >= DepthLimit
       THEN /\ Peek(IF kind = "Array" THEN "[" ELSE "{")
            /\ Fail("depth")
            /\ UNCHANGED <<pos, frames>>
       ELSE /\ Consume(IF kind = "Array" THEN "[" ELSE "{")
            /\ frames' = Append(frames, [item |-> Current, kind |-> kind, head |-> NULL, last |-> NULL])
            /\ pc' = "first"
            /\ UNCHANGED why
    /\ UNCHANGED <<heap, strings, wild>>

NoValue ==
    /\ pc = "value"
    /\ \E t \in Tok \ {"v", "s", "[", "{"} : Peek(t)
    /\ Fail("syntax")
    /\ UNCHANGED <<pos, frames, heap, strings, wild>>

\* success: the item takes the list, and only now.
CloseList ==
    /\ pc \in {"first", "after"}
    /\ Consume(Close[Top.kind])
    /\ heap' = LET h == [heap EXCEPT ![Top.item].type = Top.kind, ![Top.item].child = Top.head]
               IN  IF Top.head = NULL THEN h ELSE [h EXCEPT ![Top.head].prev = Top.last]
    /\ frames' = Front(frames)
    /\ pc' = IF Len(frames) = 1 THEN "accepted" ELSE "after"
    /\ UNCHANGED <<strings, why, wild>>

NotClosed ==
    /\ pc = "first"
    /\ \E t \in Tok \ {Close[Top.kind]} : Peek(t)
    /\ pc' = "element"
    /\ UNCHANGED <<pos, frames, heap, strings, why, wild>>

\* Mutant: the item takes the list before it is complete.
ElementTaken ==
    /\ pc = "element"
    /\ \/ /\ heap' = LET h == [Append(heap, [Blank EXCEPT !.prev = Top.last])
                               EXCEPT ![Top.item].child = IF Top.head = NULL THEN New ELSE @]
                     IN  IF Top.last = NULL THEN h ELSE [h EXCEPT ![Top.last].next = New]
          /\ frames' = Front(frames) \o
                       <<[Top EXCEPT !.last = New, !.head = IF @ = NULL THEN New ELSE @]>>
          /\ pc' = IF Top.kind = "Array" THEN "value" ELSE "name"
          /\ UNCHANGED why
       \/ Fail("memory") /\ UNCHANGED <<heap, frames>>
    /\ UNCHANGED <<text, pos, strings, wild>>

\* A new item at the end of the list.
Element ==
    /\ pc = "element"
    /\ \/ /\ heap' = LET h == Append(heap, [Blank EXCEPT !.prev = Top.last])
                     IN  IF Top.last = NULL THEN h ELSE [h EXCEPT ![Top.last].next = New]
          /\ frames' = Front(frames) \o
                       <<[Top EXCEPT !.last = New, !.head = IF @ = NULL THEN New ELSE @]>>
          /\ pc' = IF Top.kind = "Array" THEN "value" ELSE "name"
          /\ UNCHANGED why
       \/ Fail("memory") /\ UNCHANGED <<heap, frames>>
    /\ UNCHANGED <<text, pos, strings, wild>>

\* parse_string, for a name, which is then moved from valuestring to string
Name ==
    /\ pc = "name"
    /\ \/ /\ Consume("s")
          /\ heap' = [heap EXCEPT ![Current].type = "String", ![Current].string = TRUE]
          /\ strings' = strings + 1
          /\ pc' = "colon"
          /\ UNCHANGED why
       \/ /\ \/ Peek("s") /\ Fail("memory")
             \/ (\E t \in Tok \ {"s"} : Peek(t)) /\ Fail("syntax")
          /\ UNCHANGED <<pos, heap, strings>>
    /\ UNCHANGED <<frames, wild>>

Colon ==
    /\ pc = "colon"
    /\ \/ Consume(":") /\ pc' = "value" /\ UNCHANGED why
       \/ (\E t \in Tok \ {":"} : Peek(t)) /\ Fail("syntax") /\ UNCHANGED pos
    /\ UNCHANGED <<frames, heap, strings, wild>>

\* Mutant: the separator may be missing.
CommaOptional ==
    /\ pc = "after"
    /\ \/ Consume(",") /\ pc' = "element" /\ UNCHANGED why
       \/ (\E t \in Tok \ {",", Close[Top.kind]} : Peek(t)) /\ pc' = "element" /\ UNCHANGED <<pos, why>>
    /\ UNCHANGED <<frames, heap, strings, wild>>

\* After an element: another one, or neither another nor the end.
Comma ==
    /\ pc = "after"
    /\ \/ Consume(",") /\ pc' = "element" /\ UNCHANGED why
       \/ (\E t \in Tok \ {",", Close[Top.kind]} : Peek(t)) /\ Fail("syntax") /\ UNCHANGED pos
    /\ UNCHANGED <<frames, heap, strings, wild>>

-----------------------------------------------------------------------------
(* The way out *)

Forget == UNCHANGED <<heap, strings, wild>>

\* fail: of parse_array and parse_object, and of cJSON_ParseWithLengthOpts.
Unwind ==
    /\ pc = "fail"
    /\ IF frames = <<>>
       THEN Delete(Root) /\ pc' = "refused" /\ UNCHANGED frames
       ELSE /\ frames' = Front(frames)
            /\ IF Top.head = NULL THEN Forget ELSE Delete(Top.head)
            /\ UNCHANGED pc
    /\ UNCHANGED <<text, pos, why>>

\* mqtt_publisher_thread has used the tree and deletes it.
DeleteRoot ==
    /\ pc = "accepted"
    /\ Delete(Root)
    /\ pc' = "deleted"
    /\ UNCHANGED <<text, pos, frames, why>>

ParseNext ==
    \/ Start \/ Scalar \/ StringValue \/ NoValue \/ CloseList \/ NotClosed
    \/ Element \/ Name \/ Colon \/ Comma \/ Unwind \/ DeleteRoot
    \/ \E kind \in {"Array", "Object"} : OpenList(kind)

-----------------------------------------------------------------------------
(* Properties *)

\* The tokens of JSON: every value of n of them, and everything of n of them
\* that may stand between the brackets of an array or an object.
Values ==
    LET Joined(A, B) == {a \o b : a \in A, b \in B}
        Open == [Array |-> "[", Object |-> "{"]
        words[x \in (0..MaxText) \X {"Value", "Array", "Object"}] ==
            LET n == x[1]
                kind == x[2]
                Entry(m) == IF kind = "Array" THEN words[<<m, "Value">>]
                            ELSE IF m < 2 THEN {} ELSE Joined({<<"s", ":">>}, words[<<m - 2, "Value">>])
                Between(k) == Joined(Joined({<<Open[k]>>}, words[<<n - 2, k>>]), {<<Close[k]>>})
                MoreAfter(m) == Joined(Joined(Entry(m), {<<",">>}), words[<<n - m - 1, kind>>])
            IN  IF kind = "Value"
                THEN IF n = 0 THEN {}
                     ELSE IF n = 1 THEN {<<"v">>, <<"s">>}
                     ELSE Between("Array") \union Between("Object")
                ELSE IF n = 0 THEN {<<>>}
                     ELSE Entry(n) \union UNION {MoreAfter(m) : m \in 1..(n - 2)}
    IN  UNION {words[<<n, "Value">>] : n \in 0..MaxText}

\* What the item n stands for, read back from the tree.
Printed(n) ==
    LET print[m \in 0..Len(heap)] ==
            IF m = NULL THEN <<>>
            ELSE (IF heap[m].string THEN <<"s", ":">> ELSE <<>>)
                 \o (CASE heap[m].type = "Value" -> <<"v">>
                       [] heap[m].type = "String" -> <<"s">>
                       [] heap[m].type = "Array" -> <<"[">> \o print[heap[m].child] \o <<"]">>
                       [] heap[m].type = "Object" -> <<"{">> \o print[heap[m].child] \o <<"}">>)
                 \o (IF heap[m].next = NULL THEN <<>> ELSE <<",">> \o print[heap[m].next])
    IN  print[n]

\* parse_value accepts JSON and nothing else, the tree says what the text
\* said, and a text that could still become JSON is refused only for want of
\* memory or for its depth.
ParsesJson ==
    /\ pc = "accepted" => text \in Values /\ Printed(Root) = text
    /\ pc = "fail" /\ why = "syntax" => ~\E v \in Values : IsPrefix(text, v)

\* cJSON_Parse that fails and cJSON_Delete give back every node and every
\* string, each once, wherever in the recursion the parse broke off.
MemoryIsReturned ==
    /\ ~wild
    /\ pc \in {"refused", "deleted"} =>
           /\ \A m \in DOMAIN heap : IsFreed(m)
           /\ strings = 0
=============================================================================
