------------------------ MODULE ProductServiceProofs ------------------------
(***************************************************************************)
(* Proofs about ProductService, for every set of admins, products and      *)
(* details and every bound on stock and versions.                          *)
(***************************************************************************)
EXTENDS ProductService, ProductStoreProofs

(* What an admin saw is the row as it was at that version: the row has not *)
(* gone back since, and while it is live at the same version it is still   *)
(* that very row.                                                          *)
SeenRowIsCurrentOrOld(a) ==
  LET row == products[target[a]] IN
  pc[a] # "idle" =>
    /\ seen[a].version <= row.version
    /\ seen[a].version = row.version /\ ~row.isDeleted => seen[a] = row

(* Why an UPDATE that named the version seen counted no row.               *)
MissMeansMovedOrDeleted(a) ==
  pc[a] = "missed" /\ expected[a] = seen[a].version =>
    \/ products[target[a]].version > expected[a]
    \/ products[target[a]].isDeleted

ConflictMeansMoved(a) ==
  pc[a] = "conflict" /\ expected[a] = seen[a].version =>
    products[target[a]].version > expected[a]

AdminInv(a) ==
  /\ SeenRowIsCurrentOrOld(a)
  /\ MissMeansMovedOrDeleted(a)
  /\ ConflictMeansMoved(a)

(* A live row still at the version the INSERT gave it is as inserted.      *)
FirstVersionIsOriginal ==
  \A p \in DOMAIN products :
    products[p].version = 1 /\ ~products[p].isDeleted => products[p] = original[p]

IInv ==
  /\ TypeOK
  /\ FirstVersionIsOriginal
  /\ \A a \in Admins : AdminInv(a)

(* What a step may do to the rows there are: a version that does not move  *)
(* is the version of an untouched row or of one just deleted.              *)
RowsMoveOn ==
  \A p \in DOMAIN products :
    /\ p \in DOMAIN products'
    /\ products'[p].version >= products[p].version
    /\ products[p].isDeleted => products'[p] = products[p]
    /\ products'[p].version = products[p].version /\ ~products'[p].isDeleted
         => products'[p] = products[p]

-----------------------------------------------------------------------------

LEMMA InitIInv == Init => IInv
<1> SUFFICES ASSUME Init PROVE IInv
  OBVIOUS
<1>1. IsTable(products) /\ IsTable(original) /\ DOMAIN products = {}
  BY DEF Init, IsTable
<1>2. TypeOK
  BY <1>1 DEF Init, TypeOK, Phases
<1>3. QED
  BY <1>1, <1>2 DEF Init, IInv, AdminInv, SeenRowIsCurrentOrOld,
                    FirstVersionIsOriginal, MissMeansMovedOrDeleted, ConflictMeansMoved

(* Every action leaves the variables well-typed.                           *)
LEMMA TypeStep == TypeOK /\ [Next]_vars => TypeOK'
<1> SUFFICES ASSUME TypeOK, [Next]_vars PROVE TypeOK'
  OBVIOUS
<1> USE DEF TypeOK, Phases, sessionVars
<1>1. ASSUME NEW a \in Admins, NEW p \in Products, GetProduct(a, p)
      PROVE  TypeOK'
  <2>1. products[p] \in Row /\ p \in DOMAIN products
    BY <1>1 DEF GetProduct, Live, IsTable
  <2>2. QED
    BY <1>1, <2>1, NoRowAssumption DEF GetProduct, IsTable
<1>2. ASSUME NEW a \in Admins, NEW header \in 0..MaxVersion,
             NEW details \in Details, NEW stock \in 0..MaxStock,
             UpdateProduct(a, header, details, stock)
      PROVE  TypeOK'
  <2>1. ExpectedVersion(header) \in Nat \ {0}
    BY BoundsAssumption DEF ExpectedVersion
  <2>2. CASE UNCHANGED products
    BY <1>2, <2>1, <2>2 DEF UpdateProduct, IsTable
  <2>3. CASE /\ CanUpdate(products, target[a], ExpectedVersion(header))
             /\ products' = UpdateRow(products, target[a], details, stock)
             /\ pc' = [pc EXCEPT ![a] = "applied"]
    <3>1. IsTable(products') /\ DOMAIN products' = DOMAIN products
      BY <2>3, UpdateRowTable, BoundsAssumption DEF CanUpdate, Live
    <3>2. QED
      BY <1>2, <2>1, <2>3, <3>1 DEF UpdateProduct, IsTable
  <2>4. QED
    BY <1>2, <2>2, <2>3 DEF UpdateProduct
<1>3. ASSUME NEW a \in Admins, ExplainMiss(a)
      PROVE  TypeOK'
  BY <1>3 DEF ExplainMiss, IsTable
<1>4. ASSUME NEW a \in Admins, ReadBack(a)
      PROVE  TypeOK'
  <2>1. Live(products, target[a]) => products[target[a]] \in Row
    BY DEF Live, IsTable
  <2>2. QED
    BY <1>4, <2>1, NoRowAssumption DEF ReadBack, IsTable
<1>5. ASSUME NEW a \in Admins, EditAgain(a)
      PROVE  TypeOK'
  BY <1>5 DEF EditAgain, IsTable
<1>6. ASSUME NEW p \in Products, NEW details \in Details, NEW stock \in 0..MaxStock,
             CreateProduct(p, details, stock)
      PROVE  TypeOK'
  <2> DEFINE row == NewRow(details, stock)
  <2>1. row \in Row
    BY NewRowType, BoundsAssumption
  <2>2. /\ p \notin DOMAIN products /\ p \notin DOMAIN original
        /\ products' = InsertRow(products, p, row)
        /\ original' = InsertRow(original, p, row)
    BY <1>6 DEF CreateProduct
  <2> HIDE DEF row
  <2>3. IsTable(products') /\ DOMAIN products' = DOMAIN products \cup {p}
    BY <2>1, <2>2 DEF InsertRow, IsTable
  <2>4. IsTable(original') /\ DOMAIN original' = DOMAIN original \cup {p}
    BY <2>1, <2>2 DEF InsertRow, IsTable
  <2>5. QED
    BY <1>6, <2>3, <2>4 DEF CreateProduct
<1>7. ASSUME NEW p \in Products, DeleteProduct(p)
      PROVE  TypeOK'
  <2>1. IsTable(products') /\ DOMAIN products' = DOMAIN products
    BY <1>7, DeleteRowTable DEF DeleteProduct, Live
  <2>2. QED
    BY <1>7, <2>1 DEF DeleteProduct
<1>8. ASSUME NEW p \in Products, NEW quantity \in 1..MaxStock,
             ReserveStock(p, quantity)
      PROVE  TypeOK'
  <2>1. IsTable(products') /\ DOMAIN products' = DOMAIN products
    BY <1>8, ReserveRowTable, BoundsAssumption DEF ReserveStock
  <2>2. QED
    BY <1>8, <2>1 DEF ReserveStock
<1>9. ASSUME NEW p \in Products, NEW quantity \in 1..MaxStock,
             ReleaseStock(p, quantity)
      PROVE  TypeOK'
  <2>1. IsTable(products') /\ DOMAIN products' = DOMAIN products
    BY <1>9, ReleaseRowTable, BoundsAssumption DEF ReleaseStock, Live
  <2>2. QED
    BY <1>9, <2>1 DEF ReleaseStock
<1>10. CASE UNCHANGED vars
  BY <1>10 DEF vars, IsTable
<1>11. QED
  BY <1>1, <1>2, <1>3, <1>4, <1>5, <1>6, <1>7, <1>8, <1>9, <1>10
     DEF Next, AdminNext, StockNext

(* Every step respects RowsMoveOn, and writes no row as inserted.          *)
LEMMA RowsStep ==
  TypeOK /\ TypeOK' /\ [Next]_vars => RowsMoveOn
<1> SUFFICES ASSUME TypeOK, TypeOK', [Next]_vars PROVE RowsMoveOn
  OBVIOUS
<1>0. \A p \in DOMAIN products : products[p] \in Row
  BY DEF TypeOK, IsTable
<1>1. ASSUME UNCHANGED products
      PROVE  RowsMoveOn
  BY <1>0, <1>1 DEF RowsMoveOn, Row
<1>2. ASSUME NEW a \in Admins, NEW header \in 0..MaxVersion,
             NEW details \in Details, NEW stock \in 0..MaxStock,
             UpdateProduct(a, header, details, stock)
      PROVE  RowsMoveOn
  <2>1. CASE /\ CanUpdate(products, target[a], ExpectedVersion(header))
             /\ products' = UpdateRow(products, target[a], details, stock)
    <3>1. target[a] \in DOMAIN products /\ ~products[target[a]].isDeleted
      BY <2>1 DEF CanUpdate, Live
    <3>2. /\ DOMAIN products' = DOMAIN products
          /\ products'[target[a]].version = products[target[a]].version + 1
          /\ \A q \in DOMAIN products : q # target[a] => products'[q] = products[q]
      BY <2>1, <3>1, UpdateRowTable, BoundsAssumption DEF TypeOK
    <3>3. QED
      BY <1>0, <3>1, <3>2 DEF RowsMoveOn, Row
  <2>2. QED
    BY <1>1, <1>2, <2>1 DEF UpdateProduct
<1>3. ASSUME NEW p \in Products, NEW details \in Details, NEW stock \in 0..MaxStock,
             CreateProduct(p, details, stock)
      PROVE  RowsMoveOn
  <2>1. \A q \in DOMAIN products : q \in DOMAIN products' /\ products'[q] = products[q]
    BY <1>3 DEF CreateProduct, InsertRow
  <2>2. QED
    BY <1>0, <2>1 DEF RowsMoveOn, Row
<1>4. ASSUME NEW p \in Products, DeleteProduct(p)
      PROVE  RowsMoveOn
  <2>1. p \in DOMAIN products /\ ~products[p].isDeleted
    BY <1>4 DEF DeleteProduct, Live
  <2>2. /\ DOMAIN products' = DOMAIN products
        /\ products'[p].version = products[p].version
        /\ products'[p].isDeleted
        /\ \A q \in DOMAIN products : q # p => products'[q] = products[q]
    BY <1>4, <2>1, DeleteRowTable DEF DeleteProduct, TypeOK
  <2>3. QED
    BY <1>0, <2>1, <2>2 DEF RowsMoveOn, Row
<1>5. ASSUME NEW p \in Products, NEW quantity \in 1..MaxStock,
             ReserveStock(p, quantity)
      PROVE  RowsMoveOn
  <2>1. p \in DOMAIN products /\ ~products[p].isDeleted
    BY <1>5 DEF ReserveStock, CanReserve, Live
  <2>2. /\ DOMAIN products' = DOMAIN products
        /\ products'[p].version = products[p].version + 1
        /\ \A q \in DOMAIN products : q # p => products'[q] = products[q]
    BY <1>5, ReserveRowTable, BoundsAssumption DEF ReserveStock, TypeOK
  <2>3. QED
    BY <1>0, <2>1, <2>2 DEF RowsMoveOn, Row
<1>6. ASSUME NEW p \in Products, NEW quantity \in 1..MaxStock,
             ReleaseStock(p, quantity)
      PROVE  RowsMoveOn
  <2>1. /\ p \in DOMAIN products /\ ~products[p].isDeleted
        /\ quantity \in Nat /\ IsTable(products)
        /\ products' = ReleaseRow(products, p, quantity)
    BY <1>6, BoundsAssumption DEF ReleaseStock, Live, TypeOK
  <2>2. /\ DOMAIN products' = DOMAIN products
        /\ products'[p].version = products[p].version + 1
        /\ \A q \in DOMAIN products : q # p => products'[q] = products[q]
    BY <2>1, ReleaseRowTable
  <2>3. QED
    BY <1>0, <2>1, <2>2 DEF RowsMoveOn, Row
<1>7. QED
  BY <1>1, <1>2, <1>3, <1>4, <1>5, <1>6
     DEF Next, AdminNext, StockNext, GetProduct, ExplainMiss, ReadBack, EditAgain, vars

(* An admin whose session a step does not touch keeps its invariant,       *)
(* however the step moves the rows on.                                     *)
LEMMA UntouchedAdmin ==
  ASSUME TypeOK, TypeOK', RowsMoveOn, NEW a \in Admins, AdminInv(a),
         pc'[a] = pc[a], target'[a] = target[a],
         seen'[a] = seen[a], expected'[a] = expected[a]
  PROVE  AdminInv(a)'
<1>1. CASE pc[a] = "idle"
  BY <1>1 DEF AdminInv, SeenRowIsCurrentOrOld, MissMeansMovedOrDeleted, ConflictMeansMoved
<1>2. CASE pc[a] # "idle"
  <2>1. /\ target[a] \in DOMAIN products /\ target[a] \in DOMAIN products'
        /\ products[target[a]] \in Row /\ products'[target[a]] \in Row
        /\ seen[a] \in Row /\ expected[a] \in Nat
    BY <1>2 DEF TypeOK, IsTable, RowsMoveOn
  <2>2. /\ products'[target[a]].version >= products[target[a]].version
        /\ products[target[a]].isDeleted => products'[target[a]] = products[target[a]]
        /\ products'[target[a]].version = products[target[a]].version
             /\ ~products'[target[a]].isDeleted
             => products'[target[a]] = products[target[a]]
    BY <2>1 DEF RowsMoveOn
  <2>3. SeenRowIsCurrentOrOld(a)'
    BY <1>2, <2>1, <2>2 DEF AdminInv, SeenRowIsCurrentOrOld, Row
  <2>4. MissMeansMovedOrDeleted(a)' /\ ConflictMeansMoved(a)'
    BY <2>1, <2>2 DEF AdminInv, MissMeansMovedOrDeleted, ConflictMeansMoved, Row
  <2>5. QED
    BY <2>3, <2>4 DEF AdminInv
<1>3. QED
  BY <1>1, <1>2

(* The reads and writes of an admin keep what it saw right.                *)
LEMMA AdminStep ==
  ASSUME IInv, TypeOK', RowsMoveOn, NEW b \in Admins, AdminNext(b)
  PROVE  \A a \in Admins : AdminInv(a)'
<1> SUFFICES ASSUME NEW a \in Admins PROVE AdminInv(a)'
  OBVIOUS
<1> USE DEF AdminInv, SeenRowIsCurrentOrOld, MissMeansMovedOrDeleted, ConflictMeansMoved
<1>1. AdminInv(a) /\ TypeOK
  BY DEF IInv
<1>2. CASE a # b
  <2>1. /\ pc'[a] = pc[a] /\ target'[a] = target[a]
        /\ seen'[a] = seen[a] /\ expected'[a] = expected[a]
    BY <1>1, <1>2 DEF AdminNext, GetProduct, UpdateProduct, ExplainMiss, ReadBack,
                      EditAgain, TypeOK
  <2>2. QED
    BY <1>1, <2>1, UntouchedAdmin
<1>3. CASE a = b
  <2>1. ASSUME NEW p \in Products, GetProduct(a, p)
        PROVE  AdminInv(a)'
    <3>1. /\ pc'[a] = "editing" /\ target'[a] = p /\ seen'[a] = products[p]
          /\ products' = products /\ products[p] \in Row
      BY <1>1, <2>1 DEF GetProduct, TypeOK, IsTable, Live
    <3>2. QED
      BY <3>1 DEF Row
  <2>2. ASSUME NEW header \in 0..MaxVersion,
               NEW details \in Details, NEW stock \in 0..MaxStock,
               UpdateProduct(a, header, details, stock)
        PROVE  AdminInv(a)'
    <3> DEFINE p == target[a]
               v == ExpectedVersion(header)
    <3>1. /\ pc[a] = "editing" /\ target'[a] = p /\ seen'[a] = seen[a]
          /\ expected'[a] = v
          /\ p \in DOMAIN products /\ products[p] \in Row /\ seen[a] \in Row
      BY <1>1, <2>2 DEF UpdateProduct, TypeOK, IsTable
    <3>2. CASE /\ CanUpdate(products, p, v)
               /\ products' = UpdateRow(products, p, details, stock)
               /\ pc' = [pc EXCEPT ![a] = "applied"]
      <4>1. pc'[a] = "applied"
        BY <1>1, <3>2 DEF TypeOK
      <4>2. products'[p].version = products[p].version + 1
        <5>1. products'[p] = Written(products[p], details, stock)
          BY <3>1, <3>2 DEF UpdateRow
        <5>2. QED
          BY <5>1 DEF Written
      <4>3. QED
        BY <1>1, <3>1, <4>1, <4>2 DEF Row
    <3>3. CASE /\ ~CanUpdate(products, p, v)
               /\ pc' = [pc EXCEPT ![a] = "missed"]
               /\ UNCHANGED products
      <4>1. pc'[a] = "missed"
        BY <1>1, <3>3 DEF TypeOK
      <4>2. products[p].isDeleted \/ products[p].version # v
        BY <3>1, <3>3 DEF CanUpdate, Live
      <4>3. QED
        BY <1>1, <3>1, <3>3, <4>1, <4>2 DEF Row
    <3>4. QED
      BY <2>2, <3>2, <3>3 DEF UpdateProduct
  <2>3. CASE ExplainMiss(a)
    <3>1. /\ pc[a] = "missed" /\ target[a] \in DOMAIN products
          /\ pc'[a] \in {"conflict", "notFound"}
          /\ pc'[a] = "conflict" => ~products[target[a]].isDeleted
          /\ UNCHANGED <<products, target, seen, expected>>
      BY <1>1, <2>3 DEF ExplainMiss, Live, TypeOK
    <3>2. QED
      BY <1>1, <3>1
  <2>4. CASE ReadBack(a)
    <3>1. /\ pc[a] = "applied" /\ pc'[a] \in {"ok", "notFound"}
          /\ UNCHANGED <<products, target>>
          /\ seen'[a] = seen[a] \/ seen'[a] = products[target[a]]
          /\ products[target[a]] \in Row
      BY <1>1, <2>4 DEF ReadBack, TypeOK, IsTable
    <3>2. QED
      BY <1>1, <3>1 DEF Row
  <2>5. CASE EditAgain(a)
    <3>1. /\ pc[a] = "ok" /\ pc'[a] = "editing"
          /\ UNCHANGED <<products, target, seen>>
      BY <1>1, <2>5 DEF EditAgain, TypeOK
    <3>2. QED
      BY <1>1, <3>1
  <2>6. QED
    BY <1>3, <2>1, <2>2, <2>3, <2>4, <2>5 DEF AdminNext
<1>4. QED
  BY <1>2, <1>3

(* Only an INSERT makes a row of version 1, and it is the original row.    *)
LEMMA FirstVersionStep ==
  TypeOK /\ TypeOK' /\ RowsMoveOn /\ FirstVersionIsOriginal /\ [Next]_vars
    => FirstVersionIsOriginal'
<1> SUFFICES ASSUME TypeOK, TypeOK', RowsMoveOn, FirstVersionIsOriginal, [Next]_vars,
                    NEW p \in DOMAIN products',
                    products'[p].version = 1, ~products'[p].isDeleted
             PROVE  products'[p] = original'[p]
  BY DEF FirstVersionIsOriginal
<1>1. CASE p \in DOMAIN products
  <2>1. /\ products[p] \in Row /\ products'[p] \in Row
        /\ products'[p].version >= products[p].version
        /\ products'[p].version = products[p].version => products'[p] = products[p]
    BY <1>1 DEF RowsMoveOn, TypeOK, IsTable
  <2>2. products'[p] = products[p]
    BY <2>1 DEF Row
  <2>3. original'[p] = original[p]
    BY <1>1 DEF Next, vars, AdminNext, StockNext, CreateProduct, DeleteProduct, GetProduct,
                UpdateProduct, ExplainMiss, ReadBack, EditAgain, ReserveStock, ReleaseStock,
                InsertRow, TypeOK
  <2>4. QED
    BY <1>1, <2>2, <2>3 DEF FirstVersionIsOriginal
<1>2. CASE p \notin DOMAIN products
  <2>1. /\ ~UNCHANGED products
        /\ ~\E q \in Products : \E quantity \in 1..MaxStock :
              ReserveStock(q, quantity) \/ ReleaseStock(q, quantity)
        /\ ~\E q \in Products : DeleteProduct(q)
    BY <1>2 DEF ReserveStock, ReleaseStock, DeleteProduct, ReserveRow, ReleaseRow, DeleteRow
  <2>2. ~\E a \in Admins : AdminNext(a)
    BY <1>2 DEF AdminNext, GetProduct, UpdateProduct, ExplainMiss, ReadBack, EditAgain,
                UpdateRow
  <2>3. PICK q \in Products, details \in Details, stock \in 0..MaxStock :
          CreateProduct(q, details, stock)
    BY <2>1, <2>2 DEF Next, StockNext, vars
  <2>4. QED
    BY <1>2, <2>3 DEF CreateProduct, InsertRow, TypeOK
<1>3. QED
  BY <1>1, <1>2

LEMMA IInvStep == IInv /\ [Next]_vars => IInv'
<1> SUFFICES ASSUME IInv, [Next]_vars PROVE IInv'
  OBVIOUS
<1>1. TypeOK /\ TypeOK' /\ RowsMoveOn
  BY TypeStep, RowsStep DEF IInv
<1>2. FirstVersionIsOriginal'
  BY <1>1, FirstVersionStep DEF IInv
<1>3. \A a \in Admins : AdminInv(a)'
  <2>1. CASE \E b \in Admins : AdminNext(b)
    BY <1>1, <2>1, AdminStep
  <2>2. CASE UNCHANGED sessionVars
    BY <1>1, <2>2, UntouchedAdmin DEF sessionVars, IInv
  <2>3. QED
    BY <2>1, <2>2 DEF Next, StockNext, CreateProduct, DeleteProduct, ReserveStock,
                      ReleaseStock, vars, sessionVars
<1>4. QED
  BY <1>1, <1>2, <1>3 DEF IInv

(* The inductive invariant holds in every reachable state.                 *)
THEOREM Invariance == Spec => []IInv
BY InitIInv, IInvStep, PTL DEF Spec

(* Every reachable state is well-typed: in particular no stock is negative *)
(* although reservations race (reserveStock's conditional UPDATE).         *)
THEOREM TypeCorrect == Spec => []TypeOK
<1>1. IInv => TypeOK
  BY DEF IInv
<1>2. QED
  BY <1>1, Invariance, PTL

(* updateProduct's 409 is never spurious.                                  *)
THEOREM ConflictsAreReal == Spec => []ConflictMeansNewerVersion
<1>1. IInv => ConflictMeansNewerVersion
  BY DEF IInv, AdminInv, ConflictMeansMoved, ConflictMeansNewerVersion
<1>2. QED
  BY <1>1, Invariance, PTL

(* What an UPDATE is applied to.                                           *)
LEMMA AppliedUpdate ==
  ASSUME IInv, [Next]_vars, NEW a \in Admins, pc[a] = "editing", pc'[a] = "applied"
  PROVE  /\ target[a] \in DOMAIN products
         /\ ~products[target[a]].isDeleted
         /\ products[target[a]].version = expected'[a]
<1>1. PICK header \in 0..MaxVersion, details \in Details, stock \in 0..MaxStock :
        UpdateProduct(a, header, details, stock)
  <2>1. \E b \in Admins : AdminNext(b)
    BY DEF Next, StockNext, CreateProduct, DeleteProduct, ReserveStock, ReleaseStock,
           vars, sessionVars
  <2>2. PICK b \in Admins : AdminNext(b)
    BY <2>1
  <2>3. a = b
    BY <2>2 DEF AdminNext, GetProduct, UpdateProduct, ExplainMiss, ReadBack, EditAgain,
                IInv, TypeOK
  <2>4. QED
    BY <2>2, <2>3 DEF AdminNext, GetProduct, ExplainMiss, ReadBack, EditAgain, IInv, TypeOK
<1>2. CanUpdate(products, target[a], ExpectedVersion(header))
  BY <1>1 DEF UpdateProduct, IInv, TypeOK
<1>3. expected'[a] = ExpectedVersion(header)
  BY <1>1 DEF UpdateProduct, IInv, TypeOK
<1>4. QED
  BY <1>2, <1>3 DEF CanUpdate, Live

(* The optimistic lock: no edit made on a version the admin saw overwrites *)
(* a reservation, a release or another edit.                               *)
THEOREM OptimisticLock == Spec => NoLostUpdate
<1> DEFINE A == \A a \in Admins :
                  (/\ pc[a] = "editing" /\ pc'[a] = "applied"
                   /\ expected'[a] = seen[a].version)
                  => products[target[a]] = seen[a]
<1>1. IInv /\ [Next]_vars => [A]_vars
  BY AppliedUpdate DEF IInv, AdminInv, SeenRowIsCurrentOrOld
<1>2. QED
  BY <1>1, Invariance, PTL DEF Spec, NoLostUpdate

(* A PUT with no version header cannot overwrite anybody's change.         *)
THEOREM BlindPutsAreFirst == Spec => NoBlindOverwrite
<1> DEFINE A == \A a \in Admins :
                  (/\ pc[a] = "editing" /\ pc'[a] = "applied"
                   /\ expected'[a] = 1)
                  => products[target[a]] = original[target[a]]
<1>1. IInv /\ [Next]_vars => [A]_vars
  BY AppliedUpdate DEF IInv, FirstVersionIsOriginal
<1>2. QED
  BY <1>1, Invariance, PTL DEF Spec, NoBlindOverwrite

(* No writer revives or changes a deleted product, or winds a version back.*)
THEOREM DeletedRowsAreFrozen == Spec => DeletedStaysDeleted
<1> DEFINE A == \A p \in DOMAIN products :
                  /\ products'[p].version >= products[p].version
                  /\ products[p].isDeleted => products'[p] = products[p]
<1>1. IInv /\ [Next]_vars => [A]_vars
  BY TypeStep, RowsStep DEF IInv, RowsMoveOn
<1>2. QED
  BY <1>1, Invariance, PTL DEF Spec, DeletedStaysDeleted
=============================================================================
