------------------------------ MODULE MapEntries ------------------------------
(***************************************************************************)
(* The entries of a JavaScript Map as a sequence in its iteration order:   *)
(* a new key goes to the end, deleting keys leaves the others in order.    *)
(***************************************************************************)
EXTENDS Naturals, Sequences

\* The entries left when every one outside S has been deleted.
KeepOnly(entries, S) ==
    LET kept[n \in 0 .. Len(entries)] ==
            IF n = 0 THEN <<>>
            ELSE IF entries[n] \in S THEN Append(kept[n - 1], entries[n])
            ELSE kept[n - 1]
    IN  kept[Len(entries)]

===============================================================================
