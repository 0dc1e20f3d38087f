--------------------------- MODULE ProductService ---------------------------
(***************************************************************************)
(* product-service's writers of the products table, interleaved: admins    *)
(* that GET a product, edit it and PUT it back under optimistic locking    *)
(* (header x-expected-version), admins that create and delete products,    *)
(* and the NATS responders that reserve and release stock for              *)
(* order-service.                                                          *)
(*                                                                         *)
(* A PUT is three database calls, with every other writer free to run in   *)
(* between: the versioned updateMany, then either a findFirst that picks   *)
(* the error, or a fresh read of the row for the response.                 *)
(***************************************************************************)
EXTENDS ProductStore

CONSTANTS
  Admins,         \* concurrent admin sessions
  MaxStock,       \* bound on stock
  MaxVersion,     \* bound on versions
  NoRow           \* `no row read yet`

ASSUME NoRowAssumption == NoRow \notin Row
ASSUME BoundsAssumption == MaxStock \in Nat /\ MaxVersion \in Nat \ {0}

VARIABLES
  products,       \* the table
  pc,             \* where each admin session is
  target,         \* the product it edits
  seen,           \* the row its GET (or its last PUT's response) showed it
  expected,       \* the version its PUT names
  original        \* history: each product's row as it was created

vars == <<products, pc, target, seen, expected, original>>
sessionVars == <<pc, target, seen, expected>>

Phases == {"idle", "editing", "missed", "applied",
           "ok", "conflict", "notFound"}

(* parseInt(header) || 1: no header, text, or 0 all name version 1.        *)
ExpectedVersion(header) == IF header = 0 THEN 1 ELSE header

Init ==
  /\ products = [p \in {} |-> NoRow]
  /\ original = products
  /\ pc       = [a \in Admins |-> "idle"]
  /\ target   \in [Admins -> Products]
  /\ seen     = [a \in Admins |-> NoRow]
  /\ expected = [a \in Admins |-> 1]

CreateProduct(p, details, stock) ==
  /\ p \notin DOMAIN products
  /\ products' = InsertRow(products, p, NewRow(details, stock))
  /\ original' = InsertRow(original, p, NewRow(details, stock))
  /\ UNCHANGED sessionVars

(* The row is deleted softly and keeps its version.                        *)
DeleteProduct(p) ==
  /\ Live(products, p)
  /\ products' = DeleteRow(products, p)
  /\ UNCHANGED <<original, sessionVars>>

(* GET /products/:id, the read an edit starts from.                        *)
GetProduct(a, p) ==
  /\ pc[a] \in {"idle", "ok", "conflict", "notFound"}
  /\ Live(products, p)
  /\ pc'     = [pc EXCEPT ![a] = "editing"]
  /\ target' = [target EXCEPT ![a] = p]
  /\ seen'   = [seen EXCEPT ![a] = products[p]]
  /\ UNCHANGED <<products, original, expected>>

(* The first call of PUT /products/:id: the header is the version the      *)
(* admin saw, or missing (0).  A column the body does not name keeps its   *)
(* value, which the choice of details and stock includes.                  *)
UpdateProduct(a, header, details, stock) ==
  LET p == target[a]
      v == ExpectedVersion(header) IN
  /\ pc[a] = "editing"
  /\ header \in {0, seen[a].version}
  /\ expected' = [expected EXCEPT ![a] = v]
  /\ \/ /\ CanUpdate(products, p, v)
        /\ products[p].version < MaxVersion
        /\ products' = UpdateRow(products, p, details, stock)
        /\ pc' = [pc EXCEPT ![a] = "applied"]
     \/ /\ ~CanUpdate(products, p, v)
        /\ pc' = [pc EXCEPT ![a] = "missed"]
        /\ UNCHANGED products
  /\ UNCHANGED <<target, seen, original>>

(* Mutant: every miss is reported as a conflict, without the second read.  *)
ExplainMissBlindly(a) ==
  /\ pc[a] = "missed"
  /\ pc' = [pc EXCEPT ![a] = "conflict"]
  /\ UNCHANGED <<products, original, target, seen, expected>>

(* count = 0: a second read decides which error the admin gets.            *)
ExplainMiss(a) ==
  /\ pc[a] = "missed"
  /\ pc' = [pc EXCEPT ![a] =
              IF Live(products, target[a]) THEN "conflict" ELSE "notFound"]
  /\ UNCHANGED <<products, original, target, seen, expected>>

(* count = 1: the response is whatever the row holds by now.               *)
ReadBack(a) ==
  /\ pc[a] = "applied"
  /\ \/ /\ Live(products, target[a])
        /\ pc'   = [pc EXCEPT ![a] = "ok"]
        /\ seen' = [seen EXCEPT ![a] = products[target[a]]]
     \/ /\ ~Live(products, target[a])
        /\ pc' = [pc EXCEPT ![a] = "notFound"]
        /\ UNCHANGED seen
  /\ UNCHANGED <<products, original, target, expected>>

(* An admin may edit again from the row its last PUT returned.             *)
EditAgain(a) ==
  /\ pc[a] = "ok"
  /\ pc' = [pc EXCEPT ![a] = "editing"]
  /\ UNCHANGED <<products, original, target, seen, expected>>

(* NATS product.reserveStock: conditional decrement; a miss changes        *)
(* nothing.                                                                *)
ReserveStock(p, quantity) ==
  /\ CanReserve(products, p, quantity)
  /\ products[p].version < MaxVersion
  /\ products' = ReserveRow(products, p, quantity)
  /\ UNCHANGED <<original, sessionVars>>

(* NATS product.releaseStock: does nothing when the product is deleted.    *)
ReleaseStock(p, quantity) ==
  /\ Live(products, p)
  /\ products[p].version < MaxVersion
  /\ products[p].stock + quantity <= MaxStock
  /\ products' = ReleaseRow(products, p, quantity)
  /\ UNCHANGED <<original, sessionVars>>

AdminNext(a) ==
  \/ \E p \in Products : GetProduct(a, p)
  \/ \E header \in 0..MaxVersion, details \in Details, stock \in 0..MaxStock :
       UpdateProduct(a, header, details, stock)
  \/ ExplainMiss(a)
  \/ ReadBack(a)
  \/ EditAgain(a)

StockNext(p) ==
  \/ \E details \in Details, stock \in 0..MaxStock :
       CreateProduct(p, details, stock)
  \/ DeleteProduct(p)
  \/ \E quantity \in 1..MaxStock : ReserveStock(p, quantity)
  \/ \E quantity \in 1..MaxStock : ReleaseStock(p, quantity)

Next ==
  \/ \E a \in Admins : AdminNext(a)
  \/ \E p \in Products : StockNext(p)

Spec == Init /\ [][Next]_vars

-----------------------------------------------------------------------------

TypeOK ==
  /\ IsTable(products)
  /\ IsTable(original)
  /\ DOMAIN original = DOMAIN products
  /\ pc \in [Admins -> Phases]
  /\ target \in [Admins -> Products]
  /\ seen \in [Admins -> Row \cup {NoRow}]
  /\ expected \in [Admins -> Nat \ {0}]
  /\ \A a \in Admins : pc[a] # "idle" =>
       /\ seen[a] # NoRow
       /\ target[a] \in DOMAIN products

(* A PUT that names the version its admin saw is applied only to the very  *)
(* row the admin saw: no reservation, release or other edit came between,  *)
(* so none is overwritten (updateProduct's optimistic lock, which holds    *)
(* only because every other writer of a live row moves its version).       *)
NoLostUpdate ==
  [][\A a \in Admins :
       (/\ pc[a] = "editing" /\ pc'[a] = "applied"
        /\ expected'[a] = seen[a].version)
       => products[target[a]] = seen[a]]_vars

(* A PUT without a usable version header (the controller's `|| 1`) is      *)
(* applied only to a row nobody has changed since it was created.          *)
NoBlindOverwrite ==
  [][\A a \in Admins :
       (/\ pc[a] = "editing" /\ pc'[a] = "applied"
        /\ expected'[a] = 1)
       => products[target[a]] = original[target[a]]]_vars

(* A 409 is never spurious: when an admin that named the version it saw is *)
(* told `Version conflict`, the row really has moved past that version.    *)
ConflictMeansNewerVersion ==
  \A a \in Admins :
    (pc[a] = "conflict" /\ expected[a] = seen[a].version)
    => products[target[a]].version > expected[a]

(* No writer brings a deleted product back or changes it: not a reserve or *)
(* release that order-service sent before the delete, nor a PUT whose      *)
(* version still matches (deleteProduct leaves the version alone).  And a  *)
(* product's version never goes back.                                      *)
DeletedStaysDeleted ==
  [][\A p \in DOMAIN products :
       /\ products'[p].version >= products[p].version
       /\ products[p].isDeleted => products'[p] = products[p]]_vars
=============================================================================
