---------------------------- MODULE JsonLibrary ----------------------------
(***************************************************************************)
(* The library of src/main/cJSON.c as a caller meets it: a text is parsed, *)
(* printed and deleted (JsonPrint over JsonParse), or the list below an    *)
(* array or object is edited (JsonList).  The two share no state, so that  *)
(* one behaviour does one of them.                                         *)
(***************************************************************************)
EXTENDS JsonPrint, JsonList

LibraryInit == PrintInit /\ ListInit

LibraryNext ==
    \/ ListInit /\ PrintNext /\ UNCHANGED listVars
    \/ pc = "start" /\ ListNext /\ UNCHANGED printVars

LibrarySpec == LibraryInit /\ [][LibraryNext]_<<printVars, listVars>>

=============================================================================
