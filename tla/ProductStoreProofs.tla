------------------------- MODULE ProductStoreProofs -------------------------
(***************************************************************************)
(* What each statement on the products table returns: a table with the     *)
(* same rows but for the one it names.                                     *)
(***************************************************************************)
EXTENDS ProductStore, TLAPS

(* INSERT adds a row and leaves the others alone.                          *)
LEMMA InsertRowTable ==
  ASSUME NEW table, IsTable(table),
         NEW p \in Products, p \notin DOMAIN table, NEW row \in Row
  PROVE  LET new == InsertRow(table, p, row) IN
         /\ IsTable(new)
         /\ DOMAIN new = DOMAIN table \cup {p}
         /\ new[p] = row
         /\ \A q \in DOMAIN table : new[q] = table[q]
BY DEF InsertRow, IsTable

(* The row an INSERT makes.                                                *)
LEMMA NewRowType ==
  ASSUME NEW details \in Details, NEW stock \in Nat
  PROVE  /\ NewRow(details, stock) \in Row
         /\ NewRow(details, stock).version = 1
BY DEF NewRow, Row

(* A versioned UPDATE writes the named columns and moves the version on.   *)
LEMMA UpdateRowTable ==
  ASSUME NEW table, IsTable(table), NEW p \in DOMAIN table,
         NEW details \in Details, NEW stock \in Nat
  PROVE  LET new == UpdateRow(table, p, details, stock) IN
         /\ IsTable(new)
         /\ DOMAIN new = DOMAIN table
         /\ new[p].details = details
         /\ new[p].stock = stock
         /\ new[p].version = table[p].version + 1
         /\ new[p].isDeleted = table[p].isDeleted
         /\ \A q \in DOMAIN table : q # p => new[q] = table[q]
<1>1. p \in DOMAIN table /\ table[p] \in Row
  BY DEF IsTable
<1>2. QED
  BY <1>1 DEF UpdateRow, Written, IsTable, Row

(* Deleting a row marks it, and nothing else.                              *)
LEMMA DeleteRowTable ==
  ASSUME NEW table, IsTable(table), NEW p \in DOMAIN table
  PROVE  LET new == DeleteRow(table, p) IN
         /\ IsTable(new)
         /\ DOMAIN new = DOMAIN table
         /\ new[p].details = table[p].details
         /\ new[p].stock = table[p].stock
         /\ new[p].version = table[p].version
         /\ new[p].isDeleted = TRUE
         /\ \A q \in DOMAIN table : q # p => new[q] = table[q]
<1>1. p \in DOMAIN table /\ table[p] \in Row
  BY DEF IsTable
<1>2. QED
  BY <1>1 DEF DeleteRow, Written, IsTable, Row

(* A reservation whose WHERE clause holds leaves a stock that is not       *)
(* negative, and moves the version on.                                     *)
LEMMA ReserveRowTable ==
  ASSUME NEW table, IsTable(table), NEW p, NEW quantity \in Nat,
         CanReserve(table, p, quantity)
  PROVE  LET new == ReserveRow(table, p, quantity) IN
         /\ p \in DOMAIN table
         /\ IsTable(new)
         /\ DOMAIN new = DOMAIN table
         /\ new[p].details = table[p].details
         /\ new[p].stock = table[p].stock - quantity
         /\ new[p].version = table[p].version + 1
         /\ new[p].isDeleted = table[p].isDeleted
         /\ \A q \in DOMAIN table : q # p => new[q] = table[q]
<1>1. p \in DOMAIN table /\ table[p] \in Row /\ table[p].stock >= quantity
  BY DEF CanReserve, Live, IsTable
<1>2. QED
  BY <1>1 DEF ReserveRow, Written, IsTable, Row

(* A release adds to the stock, and moves the version on.                  *)
LEMMA ReleaseRowTable ==
  ASSUME NEW table, IsTable(table), NEW p \in DOMAIN table, NEW quantity \in Nat
  PROVE  LET new == ReleaseRow(table, p, quantity) IN
         /\ IsTable(new)
         /\ DOMAIN new = DOMAIN table
         /\ new[p].details = table[p].details
         /\ new[p].stock = table[p].stock + quantity
         /\ new[p].version = table[p].version + 1
         /\ new[p].isDeleted = table[p].isDeleted
         /\ \A q \in DOMAIN table : q # p => new[q] = table[q]
<1>1. p \in DOMAIN table /\ table[p] \in Row
  BY DEF IsTable
<1>2. QED
  BY <1>1 DEF ReleaseRow, Written, IsTable, Row

(* The stock of every row once some stock has been taken or given back.    *)
LEMMA StockReserved ==
  ASSUME NEW table, IsTable(table), NEW q, NEW quantity \in Nat,
         CanReserve(table, q, quantity), NEW p \in DOMAIN table
  PROVE  ReserveRow(table, q, quantity)[p].stock
           = IF q = p THEN table[p].stock - quantity ELSE table[p].stock
BY ReserveRowTable

LEMMA StockReleased ==
  ASSUME NEW table, IsTable(table), NEW q \in DOMAIN table, NEW quantity \in Nat,
         NEW p \in DOMAIN table
  PROVE  ReleaseRow(table, q, quantity)[p].stock
           = IF q = p THEN table[p].stock + quantity ELSE table[p].stock
BY ReleaseRowTable
=============================================================================
