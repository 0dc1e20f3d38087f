---------------------------- MODULE ProductStore ----------------------------
(***************************************************************************)
(* The `products` table of product-service and the statements it runs on   *)
(* it, as operators on a table: a function from the ids of the rows that   *)
(* exist to rows.  Every write is one Prisma `create` or `updateMany`,     *)
(* that is one SQL statement, which Postgres applies atomically to the row *)
(* as it then is; the WHERE clause is the statement's condition, and an    *)
(* updateMany whose condition does not hold counts 0 rows and changes      *)
(* nothing.                                                                *)
(*                                                                         *)
(* `details` stands for the columns name, description and price.           *)
(***************************************************************************)
EXTENDS Naturals

CONSTANTS
  Products,       \* the ids products may have
  Details         \* the values of the columns nothing computes with

ASSUME DetailsAssumption == Details # {}

Row == [details: Details, stock: Nat, version: Nat \ {0}, isDeleted: BOOLEAN]

IsTable(table) ==
  /\ DOMAIN table \subseteq Products
  /\ table \in [DOMAIN table -> Row]

(* WHERE id = p AND NOT isDeleted: the condition of every statement.       *)
Live(table, p) == p \in DOMAIN table /\ ~table[p].isDeleted

(* product.create: version and isDeleted take the columns' defaults.       *)
NewRow(details, stock) ==
  [details |-> details, stock |-> stock, version |-> 1, isDeleted |-> FALSE]

InsertRow(table, p, row) ==
  [q \in DOMAIN table \cup {p} |-> IF q = p THEN row ELSE table[q]]

(* Mutant: deleted rows are not filtered out.                              *)
CanUpdateDeleted(table, p, expectedVersion) ==
  p \in DOMAIN table /\ table[p].version = expectedVersion

CanUpdate(table, p, expectedVersion) ==
  Live(table, p) /\ table[p].version = expectedVersion

(* Every UPDATE of the columns of a row increments its version.            *)
Written(row, details, stock) ==
  [details |-> details, stock |-> stock,
   version |-> row.version + 1, isDeleted |-> row.isDeleted]

(* The columns the request body names are overwritten with its values.     *)
UpdateRow(table, p, details, stock) ==
  [table EXCEPT ![p] = Written(@, details, stock)]

DeleteRow(table, p) == [table EXCEPT ![p].isDeleted = TRUE]

(* checkStock: the same question as reserveStock's WHERE clause, asked of  *)
(* the row as it is now and answered without changing it.                  *)
CheckStock(table, p, quantity) ==
  Live(table, p) /\ table[p].stock >= quantity

(* Mutant: the stock is not compared again.                                *)
CanReserveUnchecked(table, p, quantity) == Live(table, p)

CanReserve(table, p, quantity) ==
  Live(table, p) /\ table[p].stock >= quantity

(* Mutants: stock moves without moving the version.                        *)
ReserveRowSilently(table, p, quantity) == [table EXCEPT ![p].stock = @ - quantity]
ReleaseRowSilently(table, p, quantity) == [table EXCEPT ![p].stock = @ + quantity]

ReserveRow(table, p, quantity) ==
  [table EXCEPT ![p] = Written(@, @.details, @.stock - quantity)]

ReleaseRow(table, p, quantity) ==
  [table EXCEPT ![p] = Written(@, @.details, @.stock + quantity)]
=============================================================================
