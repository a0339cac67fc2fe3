------------------------------ MODULE Inventory ------------------------------
(***************************************************************************)
(* The legacy inventory: the free collectibles an account has claimed.     *)
(* (Taking them away again is called by no handler.)                       *)
(***************************************************************************)
EXTENDS AccountRows

VARIABLES
    inventory,   \* INVENTORY_TABLE
    gained       \* history: what each account was told it has

inventoryVars == <<inventory, gained>>

InventoryInit ==
    /\ inventory = [a \in Account |-> {}]
    /\ gained = [a \in Account |-> {}]

\* handle_collect looks for what the account does not have yet.
AskCollect(s, a, x) ==
    /\ x \notin inventory[a]
    /\ Begins(s, Asks("collect", "load", a, x, Blank))
    /\ UNCHANGED <<rowVars, inventoryVars>>

\* add_to_inventory reads again what is there,
CollectLoad(s) ==
    /\ Doing(s, "collect") /\ At(s, "load")
    /\ work' = [work EXCEPT ![s].at = "table", ![s].cards = inventory[work[s].who]]
    /\ Orderly
    /\ UNCHANGED <<rowVars, inventoryVars>>

Collected(s, cards) ==
    /\ inventory' = [inventory EXCEPT ![work[s].who] = cards]
    /\ gained' = [gained EXCEPT ![work[s].who] = @ \cup {work[s].on}]
    /\ Ends(s)
    /\ Orderly
    /\ UNCHANGED rowVars

\* Mutant of CollectSave: only the fresh cards are written.
CollectSaveFresh(s) ==
    /\ Doing(s, "collect") /\ At(s, "table")
    /\ Collected(s, {work[s].on})

\* and writes it back with the fresh ones, in a transaction of its own.
CollectSave(s) ==
    /\ Doing(s, "collect") /\ At(s, "table")
    /\ Collected(s, work[s].cards \cup {work[s].on})

InventoryStep(s) == CollectLoad(s) \/ CollectSave(s)

-----------------------------------------------------------------------------
InventoryTypeOK ==
    /\ inventory \in [Account -> SUBSET Card]
    /\ gained \in [Account -> SUBSET Card]

\* What an account was told it has claimed it keeps, while it is there; a reset
\* takes nothing from those that stay.  (When no two of its claims overlapped.)
CardsKept ==
    \A a \in Account :
        rows[a] # NoRow /\ <<a, "cards">> \notin crossed => gained[a] \subseteq inventory[a]
=============================================================================
