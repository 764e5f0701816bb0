------------------------------ MODULE JsonList ------------------------------
(***************************************************************************)
(* The list below an array or object of cJSON (src/main/cJSON.c): items    *)
(* linked by next and prev, where prev of the first leads to the last, or  *)
(* to nothing if the list was made by cJSON_CreateIntArray or              *)
(* cJSON_Duplicate.  What hangs below an item moves and dies with it.      *)
(*                                                                         *)
(* Callers keep to the ownership the library asks for: an item is added,   *)
(* inserted or replaced with by whoever holds it, and no longer theirs     *)
(* when the call has succeeded.                                            *)
(***************************************************************************)
EXTENDS Integers, Sequences, FiniteSets, SequencesExt, Functions

CONSTANTS
    Item,    \* addresses of items; only compared
    Key,     \* names of members
    Lower,   \* a name in lower case
    NoItem   \* NULL

ASSUME ItemAssumption == IsFiniteSet(Item)
ASSUME NamesAssumption == NoItem \notin Item \union Key /\ Lower \in [Key -> Key]

VARIABLES
    kind,        \* whether the list is below an array or an object
    child,       \* its first item
    next, prev,  \* the links of the items
    string,      \* their names
    where,       \* "free", "held" by the caller, "listed", or "leaked"
    nameless     \* history: a member has been left without a name

listVars == <<kind, child, next, prev, string, where, nameless>>

In(place) == {i \in Item : where[i] = place}

ListInit ==
    /\ kind \in {"Array", "Object"}
    /\ child = NoItem
    /\ next = [i \in Item |-> NoItem]
    /\ prev = [i \in Item |-> NoItem]
    /\ string = [i \in Item |-> NoItem]
    /\ where = [i \in Item |-> "free"]
    /\ nameless = FALSE

\* The items that are met from the first along the links, as cJSON_GetArraySize
\* and get_array_item walk them.
Follow(first, links) ==
    LET walk[fuel \in Nat] ==   \* walk[n] is the first n items
            IF fuel = 0 THEN <<>>
            ELSE LET seen == walk[fuel - 1]
                     i == IF seen = <<>> THEN first ELSE links[Last(seen)]
                 IN  IF i = NoItem THEN seen ELSE Append(seen, i)
    IN  walk[Cardinality(Item) + 1]

List == Follow(child, next)

-----------------------------------------------------------------------------
(* Links *)

Move(i, place) == where' = [where EXCEPT ![i] = place]

\* Mutant: the tail is always taken from the first.
add_item_behind_prev(i) ==
    IF child = NoItem
    THEN /\ child' = i
         /\ prev' = [prev EXCEPT ![i] = i]
         /\ next' = [next EXCEPT ![i] = NoItem]
    ELSE LET tail == IF prev[child] # NoItem THEN prev[child] ELSE child
         IN  /\ next' = [next EXCEPT ![tail] = i]
             /\ prev' = [prev EXCEPT ![i] = tail, ![child] = i]
             /\ UNCHANGED child

\* add_item_to_array: the tail is searched for if the first does not know it.
add_item_to_array(i) ==
    IF child = NoItem
    THEN /\ child' = i
         /\ prev' = [prev EXCEPT ![i] = i]
         /\ next' = [next EXCEPT ![i] = NoItem]
    ELSE LET tail == IF prev[child] # NoItem THEN prev[child] ELSE Last(List)
         IN  /\ next' = [next EXCEPT ![tail] = i]
             /\ prev' = [prev EXCEPT ![i] = tail, ![child] = i]
             /\ UNCHANGED child

\* Mutant: the first item does not learn of its new tail.
DetachKeepsTail(i) ==
    LET first == i = child
        last == next[i] = NoItem
        p == IF last THEN prev ELSE [prev EXCEPT ![next[i]] = prev[i]]
    IN  /\ next' = IF first THEN [next EXCEPT ![i] = NoItem]
                   ELSE [next EXCEPT ![prev[i]] = next[i], ![i] = NoItem]
        /\ prev' = [p EXCEPT ![i] = NoItem]
        /\ child' = IF first THEN next[i] ELSE child

DetachItemViaPointer(i) ==
    LET first == i = child
        last == next[i] = NoItem
        p == IF last THEN prev ELSE [prev EXCEPT ![next[i]] = prev[i]]
    IN  /\ next' = IF first THEN [next EXCEPT ![i] = NoItem]
                   ELSE [next EXCEPT ![prev[i]] = next[i], ![i] = NoItem]
        /\ prev' = IF last /\ ~first THEN [p EXCEPT ![child] = prev[i], ![i] = NoItem]
                   ELSE [p EXCEPT ![i] = NoItem]
        /\ child' = IF first THEN next[i] ELSE child

ReplaceItemViaPointer(i, r) ==
    LET p1 == [prev EXCEPT ![r] = prev[i]]
        p2 == IF next[i] = NoItem THEN p1 ELSE [p1 EXCEPT ![next[i]] = r]
        n1 == [next EXCEPT ![r] = next[i]]
    IN  IF i = child
        THEN /\ child' = r
             /\ prev' = [p2 EXCEPT ![r] = IF p2[i] = i THEN r ELSE @, ![i] = NoItem]
             /\ next' = [n1 EXCEPT ![i] = NoItem]
        ELSE /\ next' = [n1 EXCEPT ![prev[i]] = r, ![i] = NoItem]
             /\ prev' = LET p3 == [p2 EXCEPT ![i] = NoItem]
                        IN  IF next[i] = NoItem THEN [p3 EXCEPT ![child] = r] ELSE p3
             /\ UNCHANGED child

\* get_object_item: the first item of that name.  An item without a name ends
\* the search if case matters, and is passed over otherwise.
GetItem(k, caseSensitive) ==
    LET Matches(i) ==
            IF caseSensitive THEN string[i] \in {k, NoItem}
            ELSE string[i] # NoItem /\ Lower[string[i]] = Lower[k]
        found == SelectInSeq(List, Matches)
    IN  IF found = 0 \/ string[List[found]] = NoItem THEN NoItem ELSE List[found]

-----------------------------------------------------------------------------
(* Calls *)

At(items, i) == CHOOSE x \in DOMAIN items : items[x] = i
Links == UNCHANGED <<child, next, prev>>

\* cJSON_CreateNumber and its kin.
Create ==
    /\ \E i \in In("free") :
           /\ Move(i, "held")
           /\ string' = [string EXCEPT ![i] = NoItem]
    /\ Links /\ UNCHANGED <<kind, nameless>>

\* cJSON_CreateIntArray and its kin in place of an empty array: the first
\* item's prev stays NULL.
CreateArrayOf(items) ==
    /\ kind = "Array" /\ child = NoItem
    /\ Range(items) \subseteq In("free")
    /\ child' = items[1]
    /\ next' = [i \in Item |-> IF Contains(Front(items), i) THEN items[At(items, i) + 1] ELSE next[i]]
    /\ prev' = [i \in Item |-> IF Contains(Tail(items), i) THEN items[At(items, i) - 1] ELSE prev[i]]
    /\ where' = [i \in Item |-> IF Contains(items, i) THEN "listed" ELSE where[i]]
    /\ string' = [i \in Item |-> IF Contains(items, i) THEN NoItem ELSE string[i]]
    /\ UNCHANGED <<kind, nameless>>

\* cJSON_Duplicate with recurse, the original deleted afterwards.
DuplicateArray(items) ==
    /\ Len(items) = Len(List) /\ items # <<>>
    /\ Range(items) \subseteq In("free")
    /\ child' = items[1]
    /\ next' = [i \in Item |-> IF Contains(Front(items), i) THEN items[At(items, i) + 1] ELSE NoItem]
    /\ prev' = [i \in Item |-> IF Contains(Tail(items), i) THEN items[At(items, i) - 1] ELSE NoItem]
    /\ where' = [i \in Item |-> IF Contains(items, i) THEN "listed"
                                ELSE IF Contains(List, i) THEN "free" ELSE where[i]]
    /\ string' = [i \in Item |-> IF Contains(items, i) THEN string[List[At(items, i)]] ELSE string[i]]
    /\ UNCHANGED <<kind, nameless>>

AddItemToArray(i) ==
    /\ kind = "Array" /\ i \in In("held")
    /\ add_item_to_array(i)
    /\ Move(i, "listed")
    /\ UNCHANGED <<kind, string, nameless>>

\* A failed copy of the name changes nothing.
AddItemToObject(k, i) ==
    /\ kind = "Object" /\ i \in In("held")
    /\ string' = [string EXCEPT ![i] = k]
    /\ add_item_to_array(i)
    /\ Move(i, "listed")
    /\ UNCHANGED <<kind, nameless>>

\* cJSON_AddStringToObject and its kin: an item is created and added, and
\* deleted again if the copy of its name fails.
AddNewItemToObject(k, i) ==
    /\ kind = "Object" /\ i \in In("free")
    /\ string' = [string EXCEPT ![i] = k]
    /\ add_item_to_array(i)
    /\ Move(i, "listed")
    /\ UNCHANGED <<kind, nameless>>

\* create_reference makes the item that is added.
AddItemReferenceToArray(i) ==
    /\ kind = "Array" /\ i \in In("free")
    /\ string' = [string EXCEPT ![i] = NoItem]
    /\ add_item_to_array(i)
    /\ Move(i, "listed")
    /\ UNCHANGED <<kind, nameless>>

\* If the copy of the name fails nobody frees the reference.
AddItemReferenceToObject(k, i) ==
    /\ kind = "Object" /\ i \in In("free")
    /\ \/ /\ string' = [string EXCEPT ![i] = k]
          /\ add_item_to_array(i)
          /\ Move(i, "listed")
       \/ Move(i, "leaked") /\ string' = [string EXCEPT ![i] = NoItem] /\ Links
    /\ UNCHANGED <<kind, nameless>>

\* cJSON_DetachItemFromArray and cJSON_DetachItemFromObject; place is "free"
\* for cJSON_DeleteItemFromArray and cJSON_DeleteItemFromObject.
Take(i, place) ==
    /\ DetachItemViaPointer(i)
    /\ Move(i, place)
    /\ UNCHANGED <<kind, string, nameless>>

TakeFromArray(which, place) ==
    kind = "Array" /\ which < Len(List) /\ Take(List[which + 1], place)

TakeFromObject(k, caseSensitive, place) ==
    kind = "Object" /\ GetItem(k, caseSensitive) # NoItem /\ Take(GetItem(k, caseSensitive), place)

\* cJSON_InsertItemInArray; behind the end it appends.
InsertItemInArray(which, i) ==
    /\ kind = "Array" /\ i \in In("held")
    /\ IF which >= Len(List) THEN add_item_to_array(i)
       ELSE LET after == List[which + 1]
            IN  /\ prev' = [prev EXCEPT ![i] = prev[after], ![after] = i]
                /\ IF after = child
                   THEN child' = i /\ next' = [next EXCEPT ![i] = after]
                   ELSE next' = [next EXCEPT ![i] = after, ![prev[after]] = i] /\ UNCHANGED child
    /\ Move(i, "listed")
    /\ UNCHANGED <<kind, string, nameless>>

Replace(i, r) ==
    /\ ReplaceItemViaPointer(i, r)
    /\ where' = [where EXCEPT ![i] = "free", ![r] = "listed"]

ReplaceItemInArray(which, r) ==
    /\ kind = "Array" /\ r \in In("held") /\ which < Len(List)
    /\ Replace(List[which + 1], r)
    /\ UNCHANGED <<kind, string, nameless>>

\* Mutant: the replacement keeps its own name.
ReplaceKeepsName(k, r, caseSensitive) ==
    /\ kind = "Object" /\ r \in In("held")
    /\ LET i == GetItem(k, caseSensitive)
       IN  IF i = NoItem THEN Links /\ UNCHANGED where ELSE Replace(i, r)
    /\ UNCHANGED <<kind, string, nameless>>

\* replace_item_in_object: the replacement takes the name, or loses its own if
\* the copy fails, before the member is looked up.
ReplaceItemInObject(k, r, caseSensitive) ==
    /\ kind = "Object" /\ r \in In("held")
    /\ \E name \in {k, NoItem} :
           /\ string' = [string EXCEPT ![r] = name]
           /\ LET i == GetItem(k, caseSensitive)
              IN  IF i = NoItem THEN Links /\ UNCHANGED <<where, nameless>>
                  ELSE Replace(i, r) /\ nameless' = (nameless \/ name = NoItem)
    /\ UNCHANGED kind

\* cJSON_Delete of a held item: it, and whatever still follows it.
DeleteHeld(i) ==
    /\ i \in In("held")
    /\ where' = [where EXCEPT ![i] = "free"]
    /\ Links /\ UNCHANGED <<kind, string, nameless>>

\* cJSON_Delete of the array or object; the caller makes a new one.
DeleteList ==
    /\ child # NoItem
    /\ where' = [i \in Item |-> IF Contains(List, i) THEN "free" ELSE where[i]]
    /\ next' = [i \in Item |-> IF Contains(List, i) THEN NoItem ELSE next[i]]
    /\ prev' = [i \in Item |-> IF Contains(List, i) THEN NoItem ELSE prev[i]]
    /\ child' = NoItem
    /\ nameless' = FALSE
    /\ UNCHANGED <<kind, string>>

Index0 == 0..Cardinality(Item)
MaxMade == 3   \* bound: the items of an array that is made at once

ListNext ==
    \/ Create \/ DeleteList
    \/ \E items \in SeqOf(In("free"), MaxMade) \ {<<>>} :
           IsInjective(items) /\ (CreateArrayOf(items) \/ DuplicateArray(items))
    \/ \E i \in Item :
           \/ AddItemToArray(i) \/ AddItemReferenceToArray(i) \/ DeleteHeld(i)
           \/ \E k \in Key :
                  AddItemToObject(k, i) \/ AddNewItemToObject(k, i) \/ AddItemReferenceToObject(k, i)
           \/ \E which \in Index0 : InsertItemInArray(which, i) \/ ReplaceItemInArray(which, i)
           \/ \E k \in Key, cs \in BOOLEAN : ReplaceItemInObject(k, i, cs)
    \/ \E place \in {"held", "free"} :
           \/ \E which \in Index0 : TakeFromArray(which, place)
           \/ \E k \in Key, cs \in BOOLEAN : TakeFromObject(k, cs, place)

ListSpec == ListInit /\ [][ListNext]_listVars

-----------------------------------------------------------------------------
(* Properties *)

\* Whatever calls came before, the list is whole: it holds the items that were
\* given to it, each once, its links lead both ways, the first leads to the
\* last or to nothing, and an item outside has no links left to be freed by.
ListIsWhole ==
    /\ IsInjective(List)
    /\ Range(List) = In("listed")
    /\ \A x \in 2..Len(List) : prev[List[x]] = List[x - 1]
    /\ child # NoItem => prev[child] \in {NoItem, Last(List)}
    /\ \A i \in Item \ Range(List) : next[i] = NoItem /\ prev[i] = NoItem

\* The calls that add an item put it behind the others.
AddedToList(i) ==
    \/ AddItemToArray(i) \/ AddItemReferenceToArray(i)
    \/ \E k \in Key : \/ AddItemToObject(k, i) \/ AddNewItemToObject(k, i)
                      \/ AddItemReferenceToObject(k, i) /\ where'[i] = "listed"
AddingAppends == \A i \in Item : AddedToList(i) => List' = Append(List, i)

InsertingInserts ==
    \A i \in Item, which \in Index0 :
        InsertItemInArray(which, i) =>
            List' = IF which >= Len(List) THEN Append(List, i) ELSE InsertAt(List, which + 1, i)

\* By index or by name, detached or deleted.
TakingRemoves ==
    \A place \in {"held", "free"} :
        /\ \A which \in Index0 :
               TakeFromArray(which, place) => List' = RemoveAt(List, which + 1)
        /\ \A k \in Key, cs \in BOOLEAN :
               TakeFromObject(k, cs, place) => List' = RemoveAt(List, At(List, GetItem(k, cs)))

\* A name that is not found replaces nothing.
ReplacingReplaces ==
    \A i \in Item :
        /\ \A which \in Index0 :
               ReplaceItemInArray(which, i) => List' = ReplaceAt(List, which + 1, i)
        /\ \A k \in Key, cs \in BOOLEAN :
               ReplaceItemInObject(k, i, cs) =>
                   List' = IF GetItem(k, cs) = NoItem THEN List
                           ELSE ReplaceAt(List, At(List, GetItem(k, cs)), i)

\* A copy has the names of the original, in its order.
MakingLists ==
    \A items \in SeqOf(In("free"), MaxMade) \ {<<>>} :
        IsInjective(items) =>
            /\ CreateArrayOf(items) => List' = items
            /\ DuplicateArray(items) =>
                   /\ List' = items
                   /\ \A x \in 1..Len(items) : string'[items[x]] = string[List[x]]

\* What concerns no item of the list leaves it as it is, a reference that could
\* not be named included.
OthersLeaveIt ==
    /\ Create \/ (\E i \in Item : DeleteHeld(i)) => List' = List
    /\ \A i \in Item, k \in Key :
           AddItemReferenceToObject(k, i) /\ where'[i] # "listed" => List' = List
    /\ DeleteList => List' = <<>>

\* Every call of ListNext does to the list what its name says to a sequence.
CallsMeanWhatTheySay ==
    [][/\ AddingAppends /\ InsertingInserts /\ TakingRemoves
       /\ ReplacingReplaces /\ MakingLists /\ OthersLeaveIt]_listVars

\* While no copy of a name has failed, every member of an object is found
\* under its name, the first of that name first.
MembersAreFound ==
    kind = "Object" /\ ~nameless =>
        /\ \A i \in Range(List) : string[i] \in Key
        /\ \A k \in Key, cs \in BOOLEAN :
               LET Fits(i) == string[i] = k \/ (~cs /\ Lower[string[i]] = Lower[k])
                   found == GetItem(k, cs)
               IN  IF found = NoItem THEN \A i \in Range(List) : ~Fits(i)
                   ELSE \E x \in 1..Len(List) :
                            /\ List[x] = found /\ Fits(found)
                            /\ \A y \in 1..(x - 1) : ~Fits(List[y])
=============================================================================
