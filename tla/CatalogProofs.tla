----------------------------- MODULE CatalogProofs -----------------------------
(***************************************************************************)
(* Theorems of Catalog, for any products, categories, forms and requests:  *)
(* what is offered, required or filled with products is kept, unless a     *)
(* request wrote on what it had read before another's write.               *)
(*                                                                         *)
(* The properties speak of rows, the code decides by what its earlier      *)
(* statements read.  The invariant adds, for every request that nobody     *)
(* overtook, what its last read established, and, overtaken or not, what   *)
(* of its form the checks have established for good.                       *)
(***************************************************************************)
EXTENDS Catalog, FiniteSetTheorems, WellFoundedInduction, TLAPS

USE FormsAssumption, CategoryFormsAssumption, NothingAssumption, SelectionsAssumption

SaveSteps == {"write", "dependencies", "cycles", "commit"}

\* What a request is about.
Typed(r) ==
    /\ requests[r].step \in SaveSteps => requests[r].form \in Forms
    /\ requests[r].step \in {"cycles", "commit"} =>
          \A g \in Written(requests[r].form) : Saving(r) \notin g.required
    /\ requests[r].step \in {"required", "delete", "archive"} => requests[r].target \in Products
    /\ requests[r].step \in {"c_used", "c_delete", "c_archive"} => requests[r].target \in Categories

\* What it has read, and what is so as long as nobody overtakes it.
Reads(r) ==
    /\ requests[r].step \in SaveSteps => LiveCategory(requests[r].form.category)
    /\ requests[r].step \in {"cycles", "commit"} =>
          \A g \in Written(requests[r].form) : \A q \in g.required : LiveProduct(q)
    /\ requests[r].step \in {"required", "delete"} => ~Used(requests[r].target)
    /\ requests[r].step = "delete" =>
          \A p \in Products : LiveProduct(p) => requests[r].target \notin Requires(groups, p)
    /\ requests[r].step \in {"c_used", "c_delete"} => ~HasProducts(requests[r].target)
    /\ requests[r].step = "c_delete" => \A i \in items : i[2] # requests[r].target
    /\ requests[r].step \in {"validate", "save"} =>
          \A i \in requests[r].picked :
             /\ i[2] = products[i[1]].category
             /\ \/ OnSale(products[i[1]].row) /\ OnSale(categories[i[2]])
                \/ Used(i[1])
    /\ requests[r].step = "save" => ValidSelection({i[1] : i \in requests[r].picked})

Kept == UsedIsKept /\ CategoryIsKept /\ RequirementsAreKept

IInv ==
    /\ KeptUnlessTorn
    /\ \A r \in Requests : Typed(r) /\ (~requests[r].stale => Reads(r))

ProductType == [row : Row, category : Categories]
RequestType == [step : Steps, form : Forms \cup {Nothing},
                target : Products \cup Categories \cup {Nothing},
                picked : SUBSET (Products \X Categories),
                stale : BOOLEAN, behind : BOOLEAN]
GroupsSound(G) == \A p \in Products : \A g \in G[p] : g.required # {} /\ p \notin g.required

LEMMA TypesOf ==
  ASSUME IInv
  PROVE  /\ categories \in [Categories -> Row] /\ products \in [Products -> ProductType]
         /\ groups \in [Products -> SUBSET Groups] /\ GroupsSound(groups)
         /\ items \subseteq Products \X Categories
         /\ requests \in [Requests -> RequestType]
         /\ restored \subseteq Products /\ crossed \in BOOLEAN /\ torn \in BOOLEAN
BY DEF IInv, KeptUnlessTorn, TypeOK, ProductType, RequestType, GroupsSound

LEMMA FormTypes ==
  ASSUME NEW f \in Forms
  PROVE  /\ f.product \in Products /\ f.category \in Categories /\ f.active \in BOOLEAN
         /\ Written(f) \subseteq Groups /\ \A g \in Written(f) : g.required # {} /\ g.required \subseteq Products
BY DEF Written, Groups

LEMMA RowTypes ==
  /\ NoRow \in Row
  /\ \A active \in BOOLEAN : NewRow(active) \in Row /\ Live(NewRow(active))
  /\ SeededRow \in Row /\ Live(SeededRow)
<1>1. NoRow \in Row
  BY DEF NoRow, Row
<1>2. ASSUME NEW active \in BOOLEAN PROVE NewRow(active) \in Row /\ Live(NewRow(active))
  BY DEF NoRow, NewRow, Row, Live
<1>3. SeededRow \in Row /\ Live(SeededRow)
  BY DEF NoRow, SeededRow, Row, Live
<1> QED
  BY <1>1, <1>2, <1>3

LEMMA IdleType == Idle \in RequestType /\ Idle.step = "idle" /\ Idle.stale = FALSE
BY DEF Idle, RequestType, Steps

LEMMA InitIInv == Init => IInv
<1> SUFFICES ASSUME Init PROVE IInv
  OBVIOUS
<1>1. /\ products \in [Products -> ProductType]
      /\ \A p \in Products : IF p \in DOMAIN Seeded
            THEN products[p] = [row |-> SeededRow, category |-> Seeded[p]]
            ELSE products[p].row = NoRow
  BY RowTypes DEF Init, ProductType
<1>2. \A p \in Products : p \in DOMAIN Seeded => Seeded[p] \in Categories
  BY SeededAssumption
<1>3. /\ categories \in [Categories -> Row]
      /\ \A p \in DOMAIN Seeded \cap Products : categories[Seeded[p]] = SeededRow
  BY <1>2, RowTypes DEF Init
<1>4. \A p \in Products : LiveProduct(p) => p \in DOMAIN Seeded
  BY <1>1 DEF LiveProduct, Live, NoRow
<1>5. TypeOK
  BY <1>1, <1>3, IdleType DEF Init, TypeOK, ProductType, RequestType
<1>6. Kept
  <2>1. ASSUME NEW p \in Products, LiveProduct(p) PROVE LiveCategory(products[p].category)
    <3>1. p \in DOMAIN Seeded
      BY <1>4, <2>1
    <3>2. products[p] = [row |-> SeededRow, category |-> Seeded[p]]
      BY <1>1, <3>1
    <3>3. products[p].category = Seeded[p] /\ categories[Seeded[p]] = SeededRow
      BY <1>3, <3>1, <3>2
    <3> QED
      BY <3>3, RowTypes DEF LiveCategory
  <2>2. UsedIsKept /\ RequirementsAreKept
    BY DEF Init, UsedIsKept, RequirementsAreKept, Requires
  <2> QED
    BY <2>1, <2>2 DEF Kept, CategoryIsKept
<1>7. \A r \in Requests : Typed(r) /\ Reads(r)
  BY IdleType DEF Init, Typed, Reads, SaveSteps
<1> QED
  BY <1>5, <1>6, <1>7 DEF IInv, KeptUnlessTorn, Kept

----------------------------------------------------------------------------
(* Reading and writing *)

\* A request goes on to its next statement, having written nothing.
LEMMA ReadStep ==
  ASSUME IInv, NEW r \in Requests,
         UNCHANGED <<catalog, items, history>>,
         requests' \in [Requests -> RequestType],
         \A q \in Requests \ {r} : requests'[q] = requests[q],
         Typed(r)', ~requests'[r].stale => Reads(r)'
  PROVE  IInv'
<1>1. TypeOK'
  BY TypesOf DEF TypeOK, catalog, history, RequestType, ProductType, GroupsSound
<1>2. torn' \/ Kept'
  BY DEF IInv, KeptUnlessTorn, Kept, catalog, history, UsedIsKept, CategoryIsKept, RequirementsAreKept,
     LiveProduct, LiveCategory, Live, Requires
<1>3. ASSUME NEW q \in Requests, q # r PROVE Typed(q)' /\ (~requests'[q].stale => Reads(q)')
  <2>1. requests'[q] = requests[q] /\ Typed(q) /\ (~requests[q].stale => Reads(q))
    BY <1>3 DEF IInv
  <2>2. Typed(q)'
    BY <2>1 DEF Typed, Saving, Written
  <2>3. Reads(q) => Reads(q)'
    BY <2>1 DEF Reads, catalog, LiveCategory, LiveProduct, Live, Used, HasProducts, OnSale, Requires,
       ValidSelection, Matches, Written
  <2> QED
    BY <2>1, <2>2, <2>3
<1> QED
  BY <1>1, <1>2, <1>3 DEF IInv, KeptUnlessTorn, Kept

\* Somebody writes: every other request under way is overtaken.
LEMMA WriteStep ==
  ASSUME IInv,
         categories' \in [Categories -> Row], products' \in [Products -> ProductType],
         groups' \in [Products -> SUBSET Groups], GroupsSound(groups'),
         items' \subseteq Products \X Categories,
         restored' \subseteq Products, crossed' \in BOOLEAN, torn' \in BOOLEAN,
         requests' \in [Requests -> RequestType],
         \A q \in Requests :
            \/ requests'[q].step = "idle"
            \/ /\ requests'[q].stale
               /\ requests'[q].step = requests[q].step /\ requests'[q].form = requests[q].form
               /\ requests'[q].target = requests[q].target,
         ~torn' => Kept'
  PROVE  IInv'
<1>1. TypeOK'
  BY DEF TypeOK, ProductType, RequestType, GroupsSound
<1>2. ASSUME NEW q \in Requests PROVE Typed(q)' /\ (~requests'[q].stale => Reads(q)')
  <2>1. CASE requests'[q].step = "idle"
    BY <2>1 DEF Typed, Reads, SaveSteps
  <2>2. CASE requests'[q].step # "idle"
    BY <2>2 DEF IInv, Typed, Saving, Written
  <2> QED
    BY <2>1, <2>2
<1> QED
  BY <1>1, <1>2 DEF IInv, KeptUnlessTorn, Kept

\* What the writes do to the requests.
LEMMA OvertakenTypes ==
  ASSUME NEW R \in [Requests -> RequestType], NEW r
  PROVE  /\ Overtaken(R, r) \in [Requests -> RequestType]
         /\ \A q \in Requests : /\ Overtaken(R, r)[q].step = R[q].step
                                /\ Overtaken(R, r)[q].form = R[q].form
                                /\ Overtaken(R, r)[q].target = R[q].target
                                /\ Overtaken(R, r)[q].behind = R[q].behind
                                /\ q # r /\ R[q].step # "idle" => Overtaken(R, r)[q].stale
<1>1. ASSUME NEW q \in Requests
      PROVE  /\ [R[q] EXCEPT !.stale = TRUE] \in RequestType
             /\ [R[q] EXCEPT !.stale = TRUE].step = R[q].step
             /\ [R[q] EXCEPT !.stale = TRUE].form = R[q].form
             /\ [R[q] EXCEPT !.stale = TRUE].target = R[q].target
             /\ [R[q] EXCEPT !.stale = TRUE].behind = R[q].behind
             /\ [R[q] EXCEPT !.stale = TRUE].stale
  <2>1. R[q] \in RequestType /\ TRUE \in BOOLEAN
    OBVIOUS
  <2>2. ASSUME NEW b \in BOOLEAN PROVE [R[q] EXCEPT !.stale = b] \in RequestType
    BY <2>1 DEF RequestType
  <2>3. [R[q] EXCEPT !.stale = TRUE] \in RequestType
    BY <2>1, <2>2
  <2> QED
    BY <2>1, <2>3 DEF RequestType
<1>2. \A q \in Requests : Overtaken(R, r)[q] \in {R[q], [R[q] EXCEPT !.stale = TRUE]}
  BY DEF Overtaken
<1>3. \A q \in Requests : q # r /\ R[q].step # "idle" => Overtaken(R, r)[q] = [R[q] EXCEPT !.stale = TRUE]
  BY DEF Overtaken
<1>4. Overtaken(R, r) \in [Requests -> RequestType]
  BY <1>1, <1>2 DEF Overtaken
<1> QED
  BY <1>1, <1>2, <1>3, <1>4

OthersOvertaken ==
    /\ requests' \in [Requests -> RequestType]
    /\ \A q \in Requests :
          \/ requests'[q].step = "idle"
          \/ /\ requests'[q].stale
             /\ requests'[q].step = requests[q].step /\ requests'[q].form = requests[q].form
             /\ requests'[q].target = requests[q].target

LEMMA AtOnce == ASSUME IInv, WriteAtOnce PROVE OthersOvertaken /\ torn' = torn
<1>1. requests' = Overtaken(requests, Nothing) /\ requests \in [Requests -> RequestType]
  BY TypesOf DEF WriteAtOnce
<1>2. \A q \in Requests : q # Nothing
  BY NothingAssumption
<1> QED
  BY <1>1, <1>2, OvertakenTypes DEF OthersOvertaken, WriteAtOnce

LEMMA ByRequest ==
  ASSUME IInv, NEW r \in Requests,
         requests' = Overtaken([requests EXCEPT ![r] = Idle], r)
  PROVE  OthersOvertaken
<1> DEFINE R == [requests EXCEPT ![r] = Idle]
<1>1. R \in [Requests -> RequestType] /\ R[r] = Idle /\ \A q \in Requests \ {r} : R[q] = requests[q]
  BY TypesOf, IdleType
<1> HIDE DEF R
<1>2. requests' = Overtaken(R, r)
  BY DEF R
<1>3. ASSUME NEW q \in Requests
      PROVE  \/ requests'[q].step = "idle"
             \/ /\ requests'[q].stale
                /\ requests'[q].step = requests[q].step /\ requests'[q].form = requests[q].form
                /\ requests'[q].target = requests[q].target
  <2>1. /\ requests'[q].step = R[q].step /\ requests'[q].form = R[q].form
        /\ requests'[q].target = R[q].target
        /\ q # r /\ R[q].step # "idle" => requests'[q].stale
    BY <1>1, <1>2, OvertakenTypes
  <2> QED
    BY <1>1, <2>1, IdleType
<1>4. requests' \in [Requests -> RequestType]
  <2>1. Overtaken(R, r) \in [Requests -> RequestType]
    BY <1>1, OvertakenTypes, Zenon
  <2> QED
    BY <1>2, <2>1
<1> QED
  BY <1>3, <1>4 DEF OthersOvertaken

\* Writes that leave every live row live, and add none with unmet needs.
LEMMA StillKept ==
  ASSUME IInv, Kept,
         \A p \in Products : LiveProduct(p) => Live(products'[p].row),
         \A c \in Categories : LiveCategory(c) => Live(categories'[c]),
         \A p \in Products : Live(products'[p].row) =>
            \/ LiveProduct(p) /\ products'[p].category = products[p].category
            \/ products'[p].category \in Categories /\ LiveCategory(products'[p].category),
         \A p \in Products \ restored' : Live(products'[p].row) =>
            \/ LiveProduct(p) /\ p \notin restored /\ groups'[p] = groups[p]
            \/ \A g \in groups'[p] : \A q \in g.required : q \in Products /\ LiveProduct(q),
         \A i \in items' : i \in Products \X Categories /\
            (i \in items \/ (LiveProduct(i[1]) /\ LiveCategory(i[2])))
  PROVE  Kept'
<1>1. UsedIsKept'
  <2>1. \A i \in items' : i[1] \in Products /\ i[2] \in Categories /\ LiveProduct(i[1]) /\ LiveCategory(i[2])
    BY DEF Kept, UsedIsKept
  <2> QED
    BY <2>1 DEF UsedIsKept, LiveProduct, LiveCategory
<1>2. CategoryIsKept'
  BY TypesOf DEF Kept, CategoryIsKept, LiveProduct, LiveCategory, ProductType
<1>3. RequirementsAreKept'
  <2> SUFFICES ASSUME NEW p \in Products \ restored', Live(products'[p].row),
                      NEW g \in groups'[p], NEW q \in g.required
               PROVE  Live(products'[q].row)
    BY DEF RequirementsAreKept, Requires, LiveProduct
  <2>1. q \in Products /\ LiveProduct(q)
    <3>1. CASE LiveProduct(p) /\ p \notin restored /\ groups'[p] = groups[p]
      <4>1. q \in Requires(groups, p)
        BY <3>1 DEF Requires
      <4>2. q \in Products
        BY <3>1, TypesOf DEF Groups
      <4> QED
        BY <3>1, <4>1, <4>2 DEF Kept, RequirementsAreKept
    <3> QED
      BY <3>1
  <2> QED
    BY <2>1
<1> QED
  BY <1>1, <1>2, <1>3 DEF Kept

----------------------------------------------------------------------------
(* The statements of a request that read *)

LEMMA Gone ==
  ASSUME IInv, NEW r \in Requests, NEW s \in Steps, Go(r, s)
  PROVE  /\ requests' \in [Requests -> RequestType]
         /\ \A q \in Requests \ {r} : requests'[q] = requests[q]
         /\ requests'[r].step = s /\ requests'[r].form = requests[r].form
         /\ requests'[r].target = requests[r].target /\ requests'[r].picked = requests[r].picked
         /\ requests'[r].stale = requests[r].stale
BY TypesOf DEF Go, RequestType

LEMMA EndStep ==
  ASSUME IInv, NEW r \in Requests, End(r), UNCHANGED <<catalog, items, history>>
  PROVE  IInv'
<1>1. /\ requests' \in [Requests -> RequestType] /\ requests'[r].step = "idle"
      /\ \A q \in Requests \ {r} : requests'[q] = requests[q]
  BY TypesOf, IdleType DEF End
<1>2. Typed(r)' /\ Reads(r)'
  BY <1>1 DEF Typed, Reads, SaveSteps
<1> QED
  BY <1>1, <1>2, ReadStep

\* What a request goes on with is in terms of rows that nobody changes now.
LEMMA GoStep ==
  ASSUME IInv, NEW r \in Requests, NEW s \in Steps, Go(r, s), UNCHANGED <<catalog, items, history>>,
         s \in SaveSteps => requests[r].step \in SaveSteps,
         s \in {"cycles", "commit"} =>
            \A g \in Written(requests[r].form) : \A q \in g.required :
               q # Saving(r) /\ (requests[r].stale \/ LiveProduct(q)),
         s \in {"required", "delete", "archive"} => requests[r].target \in Products,
         s \in {"c_used", "c_delete", "c_archive"} => requests[r].target \in Categories,
         ~requests[r].stale =>
            /\ s \in {"required", "delete"} => ~Used(requests[r].target)
            /\ s = "delete" => \A p \in Products : LiveProduct(p) => requests[r].target \notin Requires(groups, p)
            /\ s \in {"c_used", "c_delete"} => ~HasProducts(requests[r].target)
            /\ s = "c_delete" => \A i \in items : i[2] # requests[r].target
            /\ s \in {"validate", "save"} => requests[r].step \in {"validate", "save"}
            /\ s = "save" => ValidSelection({i[1] : i \in requests[r].picked})
  PROVE  IInv'
<1>1. /\ requests' \in [Requests -> RequestType]
      /\ \A q \in Requests \ {r} : requests'[q] = requests[q]
      /\ requests'[r].step = s /\ requests'[r].form = requests[r].form
      /\ requests'[r].target = requests[r].target /\ requests'[r].picked = requests[r].picked
      /\ requests'[r].stale = requests[r].stale
  BY Gone
<1>2. Typed(r) /\ (~requests[r].stale => Reads(r))
  BY DEF IInv
<1>3. Typed(r)'
  BY <1>1, <1>2 DEF Typed, Saving, Written
<1>4. ~requests[r].stale => Reads(r)'
  BY <1>1, <1>2 DEF Reads, catalog, LiveCategory, LiveProduct, Live, Used, HasProducts, OnSale,
     Requires, ValidSelection, Matches, Written
<1> QED
  BY <1>1, <1>3, <1>4, ReadStep

LEMMA BeginsStep ==
  ASSUME IInv, NEW r \in Requests, NEW request \in RequestType,
         requests' = [requests EXCEPT ![r] = request],
         UNCHANGED <<catalog, items, history>>,
         \/ /\ request.step = "write" /\ request.form \in Forms
            /\ LiveCategory(request.form.category)
         \/ /\ request.step \in {"archive", "required"} /\ request.target \in Products
            /\ request.step = "required" => ~Used(request.target)
         \/ /\ request.step \in {"c_archive", "c_used"} /\ request.target \in Categories
            /\ request.step = "c_used" => ~HasProducts(request.target)
         \/ /\ request.step = "validate"
            /\ \A i \in request.picked :
                  /\ i[2] = products[i[1]].category
                  /\ \/ OnSale(products[i[1]].row) /\ OnSale(categories[i[2]])
                     \/ Used(i[1])
  PROVE  IInv'
<1>1. /\ requests' \in [Requests -> RequestType] /\ requests'[r] = request
      /\ \A q \in Requests \ {r} : requests'[q] = requests[q]
  BY TypesOf
<1>2. Typed(r)'
  BY <1>1 DEF Typed, SaveSteps
<1>3. Reads(r)'
  BY <1>1 DEF Reads, SaveSteps, catalog, LiveCategory, LiveProduct, Live, Used, HasProducts, OnSale
<1> QED
  BY <1>1, <1>2, <1>3, ReadStep

LEMMA StartStep ==
  ASSUME IInv, NEW r \in Requests, StartSave(r) \/ StartDelete(r) \/ StartDeleteCategory(r)
  PROVE  IInv'
<1>1. UNCHANGED <<catalog, items, history>>
  BY DEF StartSave, StartDelete, StartDeleteCategory
<1>2. CASE StartSave(r)
  <2>1. PICK f \in Forms : LiveCategory(f.category)
                           /\ requests' = [requests EXCEPT ![r] = [Idle EXCEPT !.step = "write", !.form = f]]
    BY <1>2 DEF StartSave
  <2> DEFINE request == [Idle EXCEPT !.step = "write", !.form = f]
  <2>2. request \in RequestType /\ request.step = "write" /\ request.form = f
    BY DEF Idle, RequestType, Steps
  <2>3. requests' = [requests EXCEPT ![r] = request]
    BY <2>1
  <2> HIDE DEF request
  <2> QED
    BY <1>1, <2>1, <2>2, <2>3, BeginsStep
<1>3. CASE StartDelete(r)
  <2>1. PICK p \in Products :
          requests' = [requests EXCEPT ![r] = [Idle EXCEPT !.step = IF Used(p) THEN "archive" ELSE "required", !.target = p]]
    BY <1>3 DEF StartDelete
  <2> DEFINE request == [Idle EXCEPT !.step = IF Used(p) THEN "archive" ELSE "required", !.target = p]
  <2>2. /\ request \in RequestType /\ request.target = p
        /\ request.step = IF Used(p) THEN "archive" ELSE "required"
    BY DEF Idle, RequestType, Steps
  <2>3. requests' = [requests EXCEPT ![r] = request]
    BY <2>1
  <2> HIDE DEF request
  <2> QED
    BY <1>1, <2>2, <2>3, BeginsStep
<1>4. CASE StartDeleteCategory(r)
  <2>1. PICK c \in Categories :
          requests' = [requests EXCEPT ![r] = [Idle EXCEPT !.step = IF HasProducts(c) THEN "c_archive" ELSE "c_used", !.target = c]]
    BY <1>4 DEF StartDeleteCategory
  <2> DEFINE request == [Idle EXCEPT !.step = IF HasProducts(c) THEN "c_archive" ELSE "c_used", !.target = c]
  <2>2. /\ request \in RequestType /\ request.target = c
        /\ request.step = IF HasProducts(c) THEN "c_archive" ELSE "c_used"
    BY DEF Idle, RequestType, Steps
  <2>3. requests' = [requests EXCEPT ![r] = request]
    BY <2>1
  <2> HIDE DEF request
  <2> QED
    BY <1>1, <2>2, <2>3, BeginsStep
<1> QED
  BY <1>2, <1>3, <1>4

LEMMA PickStep == ASSUME IInv, NEW r \in Requests, PickProducts(r) PROVE IInv'
<1>1. UNCHANGED <<catalog, items, history>>
  BY DEF PickProducts
<1>2. PICK S \in Selections :
        /\ \A p \in S : ForProposal(p)
        /\ requests' = [requests EXCEPT ![r] =
              [Idle EXCEPT !.step = "validate", !.picked = {<<p, products[p].category>> : p \in S}]]
  BY DEF PickProducts
<1> DEFINE picked == {<<p, products[p].category>> : p \in S}
           request == [Idle EXCEPT !.step = "validate", !.picked = picked]
<1>3. \A p \in S : p \in Products /\ products[p].category \in Categories
  BY TypesOf DEF ProductType
<1>4. picked \in SUBSET (Products \X Categories)
  BY <1>3
<1>5. \A i \in picked : /\ i[2] = products[i[1]].category
                        /\ \/ OnSale(products[i[1]].row) /\ OnSale(categories[i[2]])
                           \/ Used(i[1])
  BY <1>2 DEF ForProposal
<1> HIDE DEF picked
<1>6. request \in RequestType /\ request.step = "validate" /\ request.picked = picked
  BY <1>4 DEF Idle, RequestType, Steps
<1>7. requests' = [requests EXCEPT ![r] = request]
  BY <1>2 DEF picked
<1> HIDE DEF request
<1> QED
  BY <1>1, <1>5, <1>6, <1>7, BeginsStep

LEMMA SaveReads ==
  ASSUME IInv, NEW r \in Requests, WriteProduct(r) \/ ReplaceDependencies(r) \/ CheckCycles(r)
  PROVE  IInv'
<1>1. UNCHANGED <<catalog, items, history>>
  BY DEF WriteProduct, ReplaceDependencies, CheckCycles
<1>2. CASE End(r)
  BY <1>1, <1>2, EndStep
<1>3. CASE WriteProduct(r) /\ Go(r, "dependencies")
  <2>1. requests[r].step = "write" /\ "dependencies" \in Steps
    BY <1>3 DEF WriteProduct, At, Steps
  <2> QED
    BY <1>1, <1>3, <2>1, GoStep DEF SaveSteps
<1>4. CASE ReplaceDependencies(r) /\ Go(r, "cycles")
           /\ \A g \in Written(requests[r].form) : \A q \in g.required : MayRequire(Saving(r), q)
  <2>1. requests[r].step = "dependencies" /\ "cycles" \in Steps
    BY <1>4 DEF ReplaceDependencies, At, Steps
  <2>2. \A g \in Written(requests[r].form) : \A q \in g.required :
           q # Saving(r) /\ (requests[r].stale \/ LiveProduct(q))
    BY <1>4 DEF MayRequire, OnSale, LiveProduct
  <2>3. Go(r, "cycles")
    BY <1>4
  <2> QED
    BY <1>1, <2>1, <2>2, <2>3, GoStep DEF SaveSteps
<1>5. CASE CheckCycles(r) /\ Go(r, "commit")
  <2>1. requests[r].step = "cycles" /\ "commit" \in Steps
    BY <1>5 DEF CheckCycles, At, Steps
  <2>2. \A g \in Written(requests[r].form) : \A q \in g.required : q # Saving(r)
    BY <2>1 DEF IInv, Typed
  <2>3. ~requests[r].stale => \A g \in Written(requests[r].form) : \A q \in g.required : LiveProduct(q)
    BY <2>1 DEF IInv, Reads
  <2>4. \A g \in Written(requests[r].form) : \A q \in g.required :
           q # Saving(r) /\ (requests[r].stale \/ LiveProduct(q))
    BY <2>2, <2>3
  <2>5. Go(r, "commit")
    BY <1>5
  <2> QED
    BY <1>1, <2>1, <2>4, <2>5, GoStep DEF SaveSteps
<1> QED
  BY <1>2, <1>3, <1>4, <1>5 DEF WriteProduct, ReplaceDependencies, CheckCycles

LEMMA DeleteReads ==
  ASSUME IInv, NEW r \in Requests, CheckRequired(r) \/ CheckCategoryUsed(r) \/ CheckSelection(r)
  PROVE  IInv'
<1>1. UNCHANGED <<catalog, items, history>> /\ Typed(r) /\ (~requests[r].stale => Reads(r))
  BY DEF CheckRequired, CheckCategoryUsed, CheckSelection, IInv
<1>2. CASE CheckRequired(r)
  <2> DEFINE s == IF \E p \in Owners : requests[r].target \in Requires(groups, p) THEN "archive" ELSE "delete"
  <2>1. requests[r].step = "required" /\ Go(r, s) /\ s \in Steps /\ s \in {"archive", "delete"}
    BY <1>2 DEF CheckRequired, At, Steps
  <2>2. requests[r].target \in Products /\ (~requests[r].stale => ~Used(requests[r].target))
    BY <1>1, <2>1 DEF Typed, Reads
  <2>3. s = "delete" => \A p \in Products : LiveProduct(p) => requests[r].target \notin Requires(groups, p)
    BY DEF Owners
  <2> HIDE DEF s
  <2> QED
    BY <1>1, <2>1, <2>2, <2>3, GoStep DEF SaveSteps
<1>3. CASE CheckCategoryUsed(r)
  <2> DEFINE s == IF \E i \in items : i[2] = requests[r].target THEN "c_archive" ELSE "c_delete"
  <2>1. requests[r].step = "c_used" /\ Go(r, s) /\ s \in Steps /\ s \in {"c_archive", "c_delete"}
    BY <1>3 DEF CheckCategoryUsed, At, Steps
  <2>2. requests[r].target \in Categories /\ (~requests[r].stale => ~HasProducts(requests[r].target))
    BY <1>1, <2>1 DEF Typed, Reads
  <2>3. s = "c_delete" => \A i \in items : i[2] # requests[r].target
    OBVIOUS
  <2> HIDE DEF s
  <2> QED
    BY <1>1, <2>1, <2>2, <2>3, GoStep DEF SaveSteps
<1>4. CASE CheckSelection(r)
  <2>1. CASE End(r)
    BY <1>1, <2>1, EndStep
  <2>2. CASE Go(r, "save") /\ ValidSelection({i[1] : i \in requests[r].picked})
    <3>1. requests[r].step = "validate" /\ "save" \in Steps
      BY <1>4 DEF CheckSelection, At, Steps
    <3> QED
      BY <1>1, <2>2, <3>1, GoStep DEF SaveSteps
  <2> QED
    BY <1>4, <2>1, <2>2 DEF CheckSelection
<1> QED
  BY <1>2, <1>3, <1>4

----------------------------------------------------------------------------
(* The statements that write *)

\* A product's row is written over, with its category and groups as they are.
LEMMA ProductRow ==
  ASSUME IInv, NEW p \in Products, NEW row \in Row, SetProduct(p, row),
         OthersOvertaken, torn' \in BOOLEAN, ~torn' => ~torn,
         restored' \in SUBSET Products,
         ~torn' =>
            \/ Live(row) /\ LiveProduct(p) /\ restored' = restored
            \/ Live(row) /\ Restorable(p) /\ restored' = restored \cup {p}
            \/ /\ ~Live(row) /\ ~Used(p) /\ restored' = restored
               /\ \A q \in Products : LiveProduct(q) => p \notin Requires(groups, q)
  PROVE  IInv'
<1>1. /\ products \in [Products -> ProductType]
      /\ products' = [products EXCEPT ![p].row = row]
      /\ UNCHANGED <<categories, groups, items, crossed>>
  BY TypesOf DEF SetProduct
<1>2. /\ products' \in [Products -> ProductType] /\ products'[p].row = row
      /\ products'[p].category = products[p].category
      /\ \A q \in Products \ {p} : products'[q] = products[q]
  BY <1>1 DEF ProductType
<1>3. ASSUME ~torn' PROVE Kept'
  <2>1. Kept
    BY <1>3 DEF IInv, KeptUnlessTorn, Kept
  <2>2. CASE Live(row)
    <3>1. \A q \in Products : LiveProduct(q) => Live(products'[q].row)
      BY <1>2, <2>2 DEF LiveProduct
    <3>2. \A c \in Categories : LiveCategory(c) => Live(categories'[c])
      BY <1>1 DEF LiveCategory
    <3>3. \A q \in Products : Live(products'[q].row) =>
             \/ LiveProduct(q) /\ products'[q].category = products[q].category
             \/ products'[q].category \in Categories /\ LiveCategory(products'[q].category)
      BY <1>2, <1>3, <2>2, TypesOf DEF LiveProduct, Restorable, ProductType
    <3>4. \A q \in Products \ restored' : Live(products'[q].row) =>
             LiveProduct(q) /\ q \notin restored /\ groups'[q] = groups[q]
      BY <1>1, <1>2, <1>3, <2>2 DEF LiveProduct
    <3>5. \A i \in items' : i \in Products \X Categories /\ i \in items
      BY <1>1, TypesOf
    <3> QED
      BY <2>1, <3>1, <3>2, <3>3, <3>4, <3>5, StillKept
  <2>3. CASE ~Live(row)
    <3>1. ~Used(p) /\ \A q \in Products : LiveProduct(q) => p \notin Requires(groups, q)
      BY <1>3, <2>3
    <3>2. restored' = restored
      BY <1>3, <2>3
    <3>3. UsedIsKept'
      BY <1>1, <1>2, <2>1, <3>1, TypesOf DEF Kept, UsedIsKept, Used, LiveProduct, LiveCategory
    <3>4. CategoryIsKept'
      BY <1>1, <1>2, <2>1, <2>3 DEF Kept, CategoryIsKept, LiveProduct, LiveCategory
    <3>5. RequirementsAreKept'
      <4> SUFFICES ASSUME NEW o \in Products \ restored, Live(products'[o].row), NEW q \in Requires(groups, o)
                   PROVE  Live(products'[q].row)
        BY <1>1, <3>2 DEF RequirementsAreKept, Requires, LiveProduct
      <4>1. o # p /\ LiveProduct(o)
        BY <1>2, <2>3 DEF LiveProduct
      <4>2. q # p /\ LiveProduct(q) /\ q \in Products
        BY <2>1, <3>1, <4>1, TypesOf DEF Kept, RequirementsAreKept, Requires, Groups
      <4> QED
        BY <1>2, <4>2 DEF LiveProduct
    <3> QED
      BY <3>3, <3>4, <3>5 DEF Kept
  <2> QED
    BY <2>2, <2>3
<1> QED
  BY <1>1, <1>2, <1>3, TypesOf, WriteStep DEF OthersOvertaken

\* A category's row is written over.
LEMMA CategoryRow ==
  ASSUME IInv, NEW c \in Categories, NEW row \in Row, SetCategory(c, row), UNCHANGED items,
         OthersOvertaken, torn' \in BOOLEAN, ~torn' => ~torn,
         ~torn' =>
            \/ Live(row)
            \/ ~LiveCategory(c)
            \/ ~HasProducts(c) /\ \A i \in items : i[2] # c
  PROVE  IInv'
<1>1. /\ categories \in [Categories -> Row] /\ categories' = [categories EXCEPT ![c] = row]
      /\ UNCHANGED <<products, groups, items, restored, crossed>>
  BY TypesOf DEF SetCategory
<1>2. /\ categories' \in [Categories -> Row] /\ categories'[c] = row
      /\ \A d \in Categories \ {c} : categories'[d] = categories[d]
  BY <1>1
<1>3. ASSUME ~torn' PROVE Kept'
  <2>1. Kept
    BY <1>3 DEF IInv, KeptUnlessTorn, Kept
  <2>2. RequirementsAreKept'
    BY <1>1, <2>1 DEF Kept, RequirementsAreKept, LiveProduct, Requires
  <2>3. UsedIsKept'
    BY <1>1, <1>2, <1>3, <2>1, TypesOf DEF Kept, UsedIsKept, LiveProduct, LiveCategory
  <2>4. CategoryIsKept'
    BY <1>1, <1>2, <1>3, <2>1, TypesOf DEF Kept, CategoryIsKept, LiveProduct, LiveCategory, HasProducts, ProductType
  <2> QED
    BY <2>2, <2>3, <2>4 DEF Kept
<1> QED
  BY <1>1, <1>2, <1>3, TypesOf, WriteStep DEF OthersOvertaken

LEMMA RowUpdates ==
  ASSUME NEW row \in Row, NEW a \in BOOLEAN, NEW b \in BOOLEAN
  PROVE  /\ [row EXCEPT !.archived = a] \in Row
         /\ Live([row EXCEPT !.archived = a]) <=> Live(row)
         /\ [row EXCEPT !.active = a] \in Row
         /\ Live([row EXCEPT !.active = a]) <=> Live(row)
         /\ [row EXCEPT !.deleted = a, !.archived = b] \in Row
         /\ [row EXCEPT !.deleted = a] \in Row
         /\ ~a /\ Live(row) => Live([row EXCEPT !.deleted = a, !.archived = b])
BY DEF Row, Live

LEMMA ArchiveStep ==
  ASSUME IInv, NEW p \in Products, NEW archived \in BOOLEAN, ArchiveProduct(p, archived)
  PROVE  IInv'
<1> DEFINE row == [products[p].row EXCEPT !.archived = archived]
<1>1. LiveProduct(p) /\ SetProduct(p, row) /\ WriteAtOnce /\ restored' = restored
  BY DEF ArchiveProduct
<1>2. row \in Row /\ Live(row)
  BY <1>1, TypesOf, RowUpdates DEF LiveProduct, ProductType
<1> HIDE DEF row
<1> QED
  BY <1>1, <1>2, AtOnce, TypesOf, ProductRow

LEMMA RestoreStep == ASSUME IInv, NEW p \in Products, RestoreProduct(p) PROVE IInv'
<1> DEFINE row == [products[p].row EXCEPT !.deleted = FALSE]
<1>1. Restorable(p) /\ SetProduct(p, row) /\ WriteAtOnce /\ restored' = restored \cup {p}
  BY DEF RestoreProduct
<1>2. products[p].row \in Row /\ FALSE \in BOOLEAN
  BY TypesOf DEF ProductType
<1>3. row \in Row
  BY <1>2, RowUpdates
<1>4. restored' \in SUBSET Products /\ OthersOvertaken /\ torn' = torn /\ torn \in BOOLEAN
  BY <1>1, AtOnce, TypesOf
<1>5. CASE Live(row)
  <2> HIDE DEF row
  <2> QED
    BY <1>1, <1>3, <1>4, <1>5, ProductRow
<1>6. CASE ~Live(row)
  <2>1. ~products[p].row.exists
    BY <1>2, <1>6 DEF Live, Row
  <2> HIDE DEF row
  <2>2. /\ products' = [products EXCEPT ![p].row = row]
        /\ UNCHANGED <<categories, groups, items, crossed>>
    BY <1>1 DEF SetProduct
  <2>3. /\ products' \in [Products -> ProductType] /\ products'[p].row = row
        /\ products'[p].category = products[p].category
        /\ \A q \in Products \ {p} : products'[q] = products[q]
    BY <1>3, <2>2, TypesOf DEF ProductType
  <2>4. ASSUME ~torn' PROVE Kept'
    <3>1. Kept
      BY <1>4, <2>4 DEF IInv, KeptUnlessTorn, Kept
    <3>2. ~LiveProduct(p)
      BY <2>1 DEF LiveProduct, Live
    <3>3. \A q \in Products : LiveProduct(q) <=> Live(products'[q].row)
      BY <1>6, <2>3, <3>2 DEF LiveProduct
    <3>4. UsedIsKept'
      BY <2>2, <3>1, <3>3, TypesOf DEF Kept, UsedIsKept, LiveProduct, LiveCategory
    <3>5. CategoryIsKept'
      BY <2>2, <2>3, <3>1, <3>3 DEF Kept, CategoryIsKept, LiveProduct, LiveCategory
    <3>6. RequirementsAreKept'
      <4> SUFFICES ASSUME NEW o \in Products \ restored, Live(products'[o].row), NEW q \in Requires(groups, o)
                   PROVE  Live(products'[q].row)
        BY <1>1, <2>2 DEF RequirementsAreKept, Requires, LiveProduct
      <4>1. LiveProduct(q) /\ q \in Products
        BY <3>1, <3>3, TypesOf DEF Kept, RequirementsAreKept, Requires, Groups
      <4> QED
        BY <3>3, <4>1
    <3> QED
      BY <3>4, <3>5, <3>6 DEF Kept
  <2> QED
    BY <1>4, <2>2, <2>3, <2>4, TypesOf, WriteStep DEF OthersOvertaken
<1> QED
  BY <1>5, <1>6

LEMMA Writes ==
  ASSUME IInv, NEW r \in Requests, Write(r)
  PROVE  /\ OthersOvertaken /\ torn' \in BOOLEAN
         /\ ~torn' => ~torn /\ ~requests[r].stale
BY ByRequest, TypesOf DEF Write, RequestType

LEMMA FinishDeleteStep == ASSUME IInv, NEW r \in Requests, FinishDelete(r) PROVE IInv'
<1> DEFINE p == requests[r].target
<1>1. /\ p \in Products /\ restored' = restored /\ Typed(r) /\ (~requests[r].stale => Reads(r))
      /\ requests[r].step \in {"delete", "archive"}
  BY DEF FinishDelete, IInv, Typed, At
<1>2. CASE ~LiveProduct(p)
  BY <1>1, <1>2, EndStep DEF FinishDelete, history
<1>3. CASE LiveProduct(p)
  <2> DEFINE row == [products[p].row EXCEPT !.deleted = At(r, "delete"),
                                            !.archived = products[p].row.archived \/ At(r, "archive")]
  <2>1. SetProduct(p, row) /\ Write(r)
    BY <1>3 DEF FinishDelete
  <2>2. /\ products[p].row \in Row /\ At(r, "delete") \in BOOLEAN
        /\ (products[p].row.archived \/ At(r, "archive")) \in BOOLEAN
    BY <1>1, TypesOf DEF ProductType, At
  <2>3. row \in Row
    BY <2>2, RowUpdates
  <2>4. ~At(r, "delete") => Live(row)
    BY <1>3, <2>2, RowUpdates DEF LiveProduct
  <2>5. Live(row) \/ requests[r].step = "delete"
    BY <2>4 DEF At
  <2> HIDE DEF row
  <2>6. requests[r].step = "delete" /\ ~requests[r].stale =>
           /\ ~Used(p)
           /\ \A q \in Products : LiveProduct(q) => p \notin Requires(groups, q)
    BY <1>1 DEF Reads
  <2>7. OthersOvertaken /\ torn' \in BOOLEAN /\ (~torn' => ~torn /\ ~requests[r].stale)
    BY <2>1, Writes
  <2> HIDE DEF p
  <2> QED
    BY <1>1, <1>3, <2>1, <2>3, <2>5, <2>6, <2>7, TypesOf, ProductRow
<1> QED
  BY <1>2, <1>3

LEMMA CategoryStep ==
  ASSUME IInv, NEW c \in Categories, NEW b \in BOOLEAN,
         SaveCategory(c, b) \/ ArchiveCategory(c, b) \/ RestoreCategory(c)
  PROVE  IInv'
<1>1. categories[c] \in Row /\ FALSE \in BOOLEAN
  BY TypesOf
<1>2. WriteAtOnce /\ UNCHANGED items
  BY DEF SaveCategory, ArchiveCategory, RestoreCategory, SetCategory
<1>3. OthersOvertaken /\ torn' = torn /\ torn \in BOOLEAN
  BY <1>2, AtOnce, TypesOf
<1>4. PICK row \in Row : SetCategory(c, row) /\ (Live(row) \/ ~LiveCategory(c))
  <2>1. CASE SaveCategory(c, b)
    BY <1>1, <2>1, RowTypes, RowUpdates DEF SaveCategory, LiveCategory
  <2>2. CASE ArchiveCategory(c, b)
    BY <1>1, <2>2, RowUpdates DEF ArchiveCategory, LiveCategory
  <2>3. CASE RestoreCategory(c)
    <3>1. ~LiveCategory(c)
      BY <2>3 DEF RestoreCategory, LiveCategory, Live
    <3>2. [categories[c] EXCEPT !.deleted = FALSE] \in Row
      BY <1>1, RowUpdates
    <3> QED
      BY <2>3, <3>1, <3>2 DEF RestoreCategory
  <2> QED
    BY <2>1, <2>2, <2>3
<1> QED
  BY <1>2, <1>3, <1>4, CategoryRow

LEMMA FinishDeleteCategoryStep == ASSUME IInv, NEW r \in Requests, FinishDeleteCategory(r) PROVE IInv'
<1> DEFINE c == requests[r].target
<1>1. /\ c \in Categories /\ Typed(r) /\ (~requests[r].stale => Reads(r))
      /\ requests[r].step \in {"c_delete", "c_archive"}
  BY DEF FinishDeleteCategory, IInv, Typed, At
<1>2. CASE ~LiveCategory(c)
  BY <1>1, <1>2, EndStep DEF FinishDeleteCategory
<1>3. CASE LiveCategory(c)
  <2> DEFINE row == [categories[c] EXCEPT !.deleted = At(r, "c_delete"),
                                          !.archived = categories[c].archived \/ At(r, "c_archive")]
  <2>1. SetCategory(c, row) /\ Write(r) /\ UNCHANGED items
    BY <1>3 DEF FinishDeleteCategory, SetCategory, Write
  <2>2. /\ categories[c] \in Row /\ At(r, "c_delete") \in BOOLEAN
        /\ (categories[c].archived \/ At(r, "c_archive")) \in BOOLEAN
    BY <1>1, TypesOf DEF At
  <2>3. row \in Row
    BY <2>2, RowUpdates
  <2>4. ~At(r, "c_delete") => Live(row)
    BY <1>3, <2>2, RowUpdates DEF LiveCategory
  <2>5. Live(row) \/ requests[r].step = "c_delete"
    BY <2>4 DEF At
  <2> HIDE DEF row
  <2>6. requests[r].step = "c_delete" /\ ~requests[r].stale =>
           ~HasProducts(c) /\ \A i \in items : i[2] # c
    BY <1>1 DEF Reads
  <2>7. OthersOvertaken /\ torn' \in BOOLEAN /\ (~torn' => ~torn /\ ~requests[r].stale)
    BY <2>1, Writes
  <2> HIDE DEF c
  <2> QED
    BY <1>1, <2>1, <2>3, <2>5, <2>6, <2>7, CategoryRow
<1> QED
  BY <1>2, <1>3

LEMMA SaveItemsStep == ASSUME IInv, NEW r \in Requests, SaveItems(r) PROVE IInv'
<1>1. /\ UNCHANGED <<catalog, restored, crossed>> /\ Write(r)
      /\ requests[r].step = "save" /\ items' \subseteq items \cup requests[r].picked
      /\ requests[r].picked \subseteq Products \X Categories
  BY TypesOf DEF SaveItems, At, RequestType
<1>2. OthersOvertaken /\ torn' \in BOOLEAN /\ (~torn' => ~torn /\ ~requests[r].stale)
  BY <1>1, Writes
<1>3. ASSUME ~torn' PROVE Kept'
  <2>1. Kept /\ Reads(r)
    BY <1>2, <1>3 DEF IInv, KeptUnlessTorn, Kept
  <2>2. ASSUME NEW i \in requests[r].picked PROVE LiveProduct(i[1]) /\ LiveCategory(i[2])
    <3>1. i[1] \in Products /\ i[2] \in Categories /\ i[2] = products[i[1]].category
      BY <1>1, <2>1 DEF Reads
    <3>2. CASE OnSale(products[i[1]].row) /\ OnSale(categories[i[2]])
      BY <3>2 DEF OnSale, LiveProduct, LiveCategory
    <3>3. CASE Used(i[1])
      <4>1. LiveProduct(i[1])
        BY <2>1, <3>3 DEF Used, Kept, UsedIsKept
      <4> QED
        BY <2>1, <3>1, <4>1 DEF Kept, CategoryIsKept
    <3> QED
      BY <1>1, <2>1, <3>2, <3>3 DEF Reads
  <2>3. \A i \in items' : i \in Products \X Categories /\
           (i \in items \/ (LiveProduct(i[1]) /\ LiveCategory(i[2])))
    BY <1>1, <2>2, TypesOf
  <2> QED
    BY <1>1, <2>1, <2>3, StillKept DEF catalog, LiveProduct, LiveCategory
<1>4. items' \subseteq Products \X Categories
  BY <1>1, TypesOf
<1> QED
  BY <1>1, <1>2, <1>3, <1>4, TypesOf, WriteStep DEF OthersOvertaken, catalog

\* The commit of SaveProduct: the product with its groups.
LEMMA CommitStep == ASSUME IInv, NEW r \in Requests, Commit(r) PROVE IInv'
<1> DEFINE p == Saving(r)
           f == requests[r].form
           row == products[p].row
           new == IF row.exists THEN [row EXCEPT !.active = f.active] ELSE NewRow(f.active)
<1>1. /\ requests[r].step = "commit" /\ f \in Forms /\ Typed(r) /\ (~requests[r].stale => Reads(r))
      /\ p \in Products /\ f.category \in Categories /\ f.active \in BOOLEAN
      /\ Written(f) \subseteq Groups
      /\ \A g \in Written(f) : g.required # {} /\ g.required \subseteq Products
  BY FormTypes DEF Commit, At, IInv, Typed, SaveSteps, Saving
<1>2. /\ products' = [products EXCEPT ![p] = [row |-> new, category |-> f.category]]
      /\ groups' = [groups EXCEPT ![p] = Written(f)]
      /\ restored' = restored \ {p}
      /\ UNCHANGED <<categories, items>>
      /\ torn' = (torn \/ requests[r].stale) /\ crossed' = requests[r].behind
  BY DEF Commit, AsSaved
<1>3. new \in Row /\ (LiveProduct(p) => Live(new)) /\ (Live(new) => LiveProduct(p) \/ ~row.exists)
  BY <1>1, RowTypes, RowUpdates, TypesOf DEF ProductType, LiveProduct, Live
<1>4. OthersOvertaken
  <2> DEFINE R == Overtaken([requests EXCEPT ![r] = Idle], r)
             Loses(q) == [R[q] EXCEPT !.behind = TRUE]
  <2>0. [requests EXCEPT ![r] = Idle] \in [Requests -> RequestType]
    BY TypesOf, IdleType
  <2>1. R \in [Requests -> RequestType]
    BY <2>0, OvertakenTypes, Zenon
  <2>2. \A q \in Requests :
           \/ R[q].step = "idle"
           \/ /\ R[q].stale /\ R[q].step = requests[q].step /\ R[q].form = requests[q].form
              /\ R[q].target = requests[q].target
    <3> DEFINE E == [requests EXCEPT ![r] = Idle]
    <3>1. E[r].step = "idle" /\ \A q \in Requests \ {r} : E[q] = requests[q]
      BY TypesOf, IdleType
    <3>2. E \in [Requests -> RequestType]
      BY <2>0
    <3>3. R = Overtaken(E, r)
      OBVIOUS
    <3> HIDE DEF E, R
    <3> QED
      BY <3>1, <3>2, <3>3, OvertakenTypes
  <2>3. requests' = Behind(R)
    BY DEF Commit
  <2> HIDE DEF R
  <2>4. ASSUME NEW q \in Requests
        PROVE  /\ requests'[q] \in RequestType /\ requests'[q].step = R[q].step
               /\ requests'[q].form = R[q].form /\ requests'[q].target = R[q].target
               /\ requests'[q].stale = R[q].stale
    <3>1. R[q] \in RequestType /\ TRUE \in BOOLEAN
      BY <2>1
    <3>2. ASSUME NEW b \in BOOLEAN PROVE [R[q] EXCEPT !.behind = b] \in RequestType
      BY <3>1 DEF RequestType
    <3>3. Loses(q) \in RequestType
      BY <3>1, <3>2
    <3>4. requests'[q] \in {R[q], Loses(q)}
      BY <2>3 DEF Behind
    <3>5. /\ Loses(q).step = R[q].step /\ Loses(q).form = R[q].form
          /\ Loses(q).target = R[q].target /\ Loses(q).stale = R[q].stale
      BY <3>1 DEF RequestType
    <3> HIDE DEF Loses
    <3> QED
      BY <3>1, <3>3, <3>4, <3>5
  <2>5. requests' \in [Requests -> RequestType]
    BY <2>3, <2>4 DEF Behind
  <2> QED
    BY <2>2, <2>4, <2>5 DEF OthersOvertaken
<1>5. [row |-> new, category |-> f.category] \in ProductType
  BY <1>1, <1>3 DEF ProductType
<1>6. GroupsSound(groups') /\ groups' \in [Products -> SUBSET Groups]
  <2>1. \A g \in Written(f) : p \notin g.required
    BY <1>1 DEF Typed
  <2>2. groups' \in [Products -> SUBSET Groups] /\ groups'[p] = Written(f)
        /\ \A q \in Products \ {p} : groups'[q] = groups[q]
    BY <1>1, <1>2, TypesOf
  <2> QED
    BY <1>1, <2>1, <2>2, TypesOf DEF GroupsSound
<1>7. ~requests[r].stale =>
         /\ LiveCategory(f.category)
         /\ \A g \in Written(f) : \A q \in g.required : q \in Products /\ LiveProduct(q)
  BY <1>1 DEF Reads, SaveSteps
<1> HIDE DEF new, p, f, row
<1>8. /\ products' \in [Products -> ProductType]
      /\ products'[p].row = new /\ products'[p].category = f.category
      /\ \A q \in Products \ {p} : products'[q] = products[q]
  BY <1>1, <1>2, <1>5, TypesOf
<1>9. /\ groups'[p] = Written(f)
      /\ \A q \in Products \ {p} : groups'[q] = groups[q]
  BY <1>1, <1>2, TypesOf
<1>10. ASSUME ~torn' PROVE Kept'
  <2>1. Kept /\ ~requests[r].stale
    BY <1>2, <1>10 DEF IInv, KeptUnlessTorn, Kept
  <2>2. \A q \in Products : LiveProduct(q) => Live(products'[q].row)
    BY <1>3, <1>8 DEF LiveProduct
  <2>3. \A c \in Categories : LiveCategory(c) => Live(categories'[c])
    BY <1>2 DEF LiveCategory
  <2>4. \A q \in Products : Live(products'[q].row) =>
           \/ LiveProduct(q) /\ products'[q].category = products[q].category
           \/ products'[q].category \in Categories /\ LiveCategory(products'[q].category)
    BY <1>1, <1>7, <1>8, <2>1 DEF LiveProduct
  <2>5. \A q \in Products \ restored' : Live(products'[q].row) =>
           \/ LiveProduct(q) /\ q \notin restored /\ groups'[q] = groups[q]
           \/ \A g \in groups'[q] : \A x \in g.required : x \in Products /\ LiveProduct(x)
    BY <1>2, <1>7, <1>8, <1>9, <2>1 DEF LiveProduct
  <2>6. \A i \in items' : i \in Products \X Categories /\ i \in items
    BY <1>2, TypesOf
  <2> QED
    BY <2>1, <2>2, <2>3, <2>4, <2>5, <2>6, StillKept
<1>11. restored' \subseteq Products /\ torn' \in BOOLEAN /\ crossed' \in BOOLEAN
  BY <1>2, TypesOf DEF RequestType
<1> QED
  BY <1>2, <1>4, <1>6, <1>8, <1>10, <1>11, TypesOf, WriteStep DEF OthersOvertaken

----------------------------------------------------------------------------

LEMMA StepIInv == IInv /\ [Next]_vars => IInv'
<1> SUFFICES ASSUME IInv, [Next]_vars PROVE IInv'
  OBVIOUS
<1>1. CASE UNCHANGED vars
  <2>1. UNCHANGED <<catalog, items, history>> /\ requests' = requests
    BY <1>1 DEF vars
  <2>2. TypeOK'
    BY <2>1 DEF catalog, history, IInv, KeptUnlessTorn, TypeOK
  <2>3. torn' \/ Kept'
    BY <2>1 DEF IInv, KeptUnlessTorn, Kept, catalog, history, UsedIsKept, CategoryIsKept, RequirementsAreKept,
       LiveProduct, LiveCategory, Live, Requires
  <2>4. ASSUME NEW q \in Requests PROVE Typed(q)' /\ (~requests'[q].stale => Reads(q)')
    <3>1. requests'[q] = requests[q] /\ Typed(q) /\ (~requests[q].stale => Reads(q))
      BY <2>1 DEF IInv
    <3>2. Typed(q)'
      BY <3>1 DEF Typed, Saving, Written
    <3>3. Reads(q) => Reads(q)'
      BY <2>1, <3>1 DEF Reads, catalog, LiveCategory, LiveProduct, Live, Used, HasProducts, OnSale, Requires,
         ValidSelection, Matches, Written
    <3> QED
      BY <3>1, <3>2, <3>3
  <2> QED
    BY <2>2, <2>3, <2>4 DEF IInv, KeptUnlessTorn, Kept
<1>2. CASE Next
  <2>1. ASSUME NEW r \in Requests, Save(r) \/ Delete(r) \/ DeleteCategory(r) \/ Edit(r) PROVE IInv'
    BY <2>1, StartStep, SaveReads, CommitStep, DeleteReads, FinishDeleteStep, FinishDeleteCategoryStep,
       PickStep, SaveItemsStep DEF Save, Delete, DeleteCategory, Edit
  <2>2. ASSUME NEW r \in Requests, EndEarly(r) PROVE IInv'
    BY <2>2, EndStep DEF EndEarly
  <2>3. ASSUME NEW p \in Products, RestoreProduct(p) \/ \E archived \in BOOLEAN : ArchiveProduct(p, archived)
        PROVE  IInv'
    BY <2>3, RestoreStep, ArchiveStep
  <2>4. ASSUME NEW c \in Categories,
               RestoreCategory(c) \/ \E b \in BOOLEAN : SaveCategory(c, b) \/ ArchiveCategory(c, b)
        PROVE  IInv'
    <3>1. \E b \in BOOLEAN : SaveCategory(c, b) \/ ArchiveCategory(c, b) \/ RestoreCategory(c)
      BY <2>4
    <3> QED
      BY <3>1, CategoryStep
  <2> QED
    BY <1>2, <2>1, <2>2, <2>3, <2>4 DEF Next
<1> QED
  BY <1>1, <1>2

(* The theorems *)

\* What the requests have read holds until somebody overtakes them.
THEOREM Invariant == Spec => []IInv
<1> QED
  BY InitIInv, StepIInv, PTL DEF Spec

\* Nothing a proposal offers, a product requires or a category is needed for
\* is deleted, unless a request wrote on what it had read before another's
\* write (archiving instead of deleting is decided by separate statements).
THEOREM KeptUntilTorn == Spec => []KeptUnlessTorn
<1>1. IInv => KeptUnlessTorn
  BY DEF IInv
<1> QED
  BY <1>1, Invariant, PTL

\* An editor that nobody overtook saves products that satisfy each other's
\* dependencies and are on sale or were in use before.
THEOREM ItemsAreValid == Spec => SavedItemsAreValid
<1> DEFINE Valid ==
        \A r \in Requests : (SaveItems(r) /\ ~requests[r].stale) =>
           LET S == {i[1] : i \in requests[r].picked}
           IN /\ \A p \in S : \A g \in groups[p] :
                    IF g.mode = "all" THEN \A q \in g.required : q \in S
                    ELSE \E q \in g.required : q \in S
              /\ \A p \in Added : Used(p) \/ OnSale(products[p].row)
<1>1. ASSUME IInv PROVE Valid
  <2> SUFFICES ASSUME NEW r \in Requests, SaveItems(r), ~requests[r].stale
               PROVE  LET S == {i[1] : i \in requests[r].picked}
                      IN /\ \A p \in S : \A g \in groups[p] :
                               IF g.mode = "all" THEN \A q \in g.required : q \in S
                               ELSE \E q \in g.required : q \in S
                         /\ \A p \in Added : Used(p) \/ OnSale(products[p].row)
    OBVIOUS
  <2> DEFINE S == {i[1] : i \in requests[r].picked}
  <2>1. requests[r].step = "save" /\ Reads(r) /\ items' \subseteq items \cup requests[r].picked
        /\ requests[r].picked \subseteq Products \X Categories
    BY <1>1, TypesOf DEF SaveItems, At, IInv, RequestType
  <2>2. S \subseteq Products /\ ValidSelection(S)
    BY <2>1 DEF Reads
  <2>3. ASSUME NEW p \in S, NEW g \in groups[p]
        PROVE  IF g.mode = "all" THEN \A q \in g.required : q \in S
               ELSE \E q \in g.required : q \in S
    <3>1. Matches(g, S) /\ g.mode \in {"any", "all"}
      BY <1>1, <2>2, <2>3, TypesOf DEF ValidSelection, Groups, Modes
    <3> HIDE DEF S
    <3> QED
      BY <3>1 DEF Matches
  <2>4. ASSUME NEW p \in Added PROVE Used(p) \/ OnSale(products[p].row)
    <3>1. PICK i \in items' \ items : p = i[1]
      BY <2>4 DEF Added
    <3>2. i \in requests[r].picked
      BY <2>1, <3>1
    <3> QED
      BY <2>1, <3>1, <3>2 DEF Reads
  <2> QED
    BY <2>3, <2>4
<1>2. IInv /\ [Next]_vars => [Valid]_vars
  BY <1>1
<1> QED
  BY <1>2, Invariant, PTL DEF Spec, SavedItemsAreValid

----------------------------------------------------------------------------
(* Cycles *)

\* Walk is defined by recursion over a number of rounds; inductions over it
\* are over the smallest number for which the claim would fail.
LEMMA Smallest ==
  ASSUME NEW T \in SUBSET Nat, T # {}
  PROVE  \E n \in T : \A m \in T : ~(m < n)
<1>1. \E n \in T : \A m \in T : ~(<<m, n>> \in OpToRel(<, Nat))
  BY NatLessThanWellFounded, WFMin, Zenon
<1> QED
  BY <1>1 DEF OpToRel

Round(E, W) == {e \in Products \X Products : \E p \in Products : <<e[1], p>> \in W /\ <<p, e[2]>> \in E}
Walks(E, K, W) ==
    W = [n \in 0 .. K |-> IF n = 0 THEN E ELSE W[n - 1] \cup Round(E, W[n - 1])]

\* The walk exists for any number of rounds: a walk of k - 1 rounds has a next.
LEMMA WalkExists == ASSUME NEW E, NEW K \in Nat PROVE \E W : Walks(E, K, W)
<1> DEFINE T == {k \in Nat : ~\E W : Walks(E, k, W)}
<1>1. SUFFICES ASSUME T # {} PROVE FALSE
  OBVIOUS
<1>2. T \in SUBSET Nat
  OBVIOUS
<1> HIDE DEF T
<1>3. PICK k \in T : \A m \in T : ~(m < k)
  BY <1>1, <1>2, Smallest
<1>4. k \in Nat
  BY <1>2
<1>5. CASE k = 0
  <2>1. Walks(E, 0, [n \in 0 .. 0 |-> E])
    BY DEF Walks
  <2> QED
    BY <1>3, <1>5, <2>1 DEF T
<1>6. CASE k # 0
  <2>1. k - 1 \in Nat /\ k - 1 < k
    BY <1>4, <1>6
  <2>2. PICK V : Walks(E, k - 1, V)
    BY <1>3, <2>1 DEF T
  <2> DEFINE F(n) == IF n = 0 THEN E ELSE V[n - 1] \cup Round(E, V[n - 1])
             W == [n \in 0 .. k |-> F(n)]
  <2>3. \A n \in 0 .. (k - 1) : V[n] = F(n)
    <3>1. V = [n \in 0 .. (k - 1) |-> F(n)]
      BY <2>2 DEF Walks
    <3> HIDE DEF F
    <3> QED
      BY <3>1
  <2>4. \A n \in 1 .. k : W[n - 1] = V[n - 1]
    <3>1. \A n \in 1 .. k : n - 1 \in 0 .. (k - 1) /\ n - 1 \in 0 .. k
      BY <1>4
    <3> HIDE DEF F
    <3> QED
      BY <2>3, <3>1
  <2>5. \A n \in 0 .. k : F(n) = IF n = 0 THEN E ELSE W[n - 1] \cup Round(E, W[n - 1])
    <3>1. \A n \in 0 .. k : n # 0 => n \in 1 .. k
      BY <1>4
    <3> HIDE DEF W
    <3> QED
      BY <2>4, <3>1, Zenon
  <2>6. Walks(E, k, W)
    <3> DEFINE G(n) == IF n = 0 THEN E ELSE W[n - 1] \cup Round(E, W[n - 1])
    <3>1. \A n \in 0 .. k : F(n) = G(n)
      BY <2>5
    <3>2. [n \in 0 .. k |-> F(n)] = [n \in 0 .. k |-> G(n)]
      <4> HIDE DEF F, G
      <4> QED
        BY <3>1
    <3>3. W = [n \in 0 .. k |-> G(n)]
      BY <3>2
    <3> QED
      BY <3>3, Zenon DEF Walks
  <2> QED
    BY <1>3, <2>6 DEF T
<1> QED
  BY <1>5, <1>6

\* What the query returns is the last of rounds that begin with the edges.
Rounds(E, K, W) == W[0] = E /\ \A n \in 1 .. K : W[n] = W[n - 1] \cup Round(E, W[n - 1])
LEMMA WalkGrows ==
  ASSUME NEW E
  PROVE  \E W : Walk(E) = W[Cardinality(Products)] /\ Rounds(E, Cardinality(Products), W)
<1> DEFINE K == Cardinality(Products)
           W == CHOOSE W : Walks(E, K, W)
           F(n) == IF n = 0 THEN E ELSE W[n - 1] \cup Round(E, W[n - 1])
<1>1. K \in Nat
  BY FS_CardinalityType, ProductsAssumption
<1>2. Walks(E, K, W)
  <2> HIDE DEF K
  <2> QED
    BY <1>1, WalkExists, Zenon
<1>3. Walk(E) = W[K]
  BY DEF Walk, Walks, Round
<1>4. W = [n \in 0 .. K |-> F(n)]
  <2> HIDE DEF W, K
  <2> QED
    BY <1>2 DEF Walks
<1>5. \A n \in 0 .. K : W[n] = F(n)
  <2> HIDE DEF F, W, K
  <2> QED
    BY <1>4
<1>6. Rounds(E, K, W)
  <2> HIDE DEF W, K
  <2>1. 0 \in 0 .. K /\ \A n \in 1 .. K : n \in 0 .. K /\ n # 0
    BY <1>1
  <2> QED
    BY <1>5, <2>1, Zenon DEF Rounds
<1> HIDE DEF W
<1> QED
  BY <1>3, <1>6

\* Products that require one another in a circle.
Circle(E, S) == S # {} /\ \A p \in S : \E q \in S : <<p, q>> \in E

\* Two products joined by products each of which requires another of them or
\* the last, as those of every round are.
Joined(E, e) ==
    \E S \in SUBSET Products : e[1] \in S /\ \A p \in S : \E q \in S \cup {e[2]} : <<p, q>> \in E
LEMMA WalksAreJoined ==
  ASSUME NEW E \in SUBSET (Products \X Products), NEW W, NEW K \in Nat, Rounds(E, K, W)
  PROVE  \A e \in W[K] : Joined(E, e)
<1> DEFINE T == {n \in 0 .. K : ~\A e \in W[n] : Joined(E, e)}
<1>1. SUFFICES ASSUME T # {} PROVE FALSE
  <2>1. K \in 0 .. K
    OBVIOUS
  <2> QED
    BY <2>1
<1>2. T \in SUBSET Nat
  OBVIOUS
<1>3. PICK n \in T : \A m \in T : ~(m < n)
  <2> HIDE DEF T
  <2> QED
    BY <1>1, <1>2, Smallest
<1>4. \A e \in E : Joined(E, e)
  <2> TAKE e \in E
  <2>1. e[1] \in Products /\ <<e[1], e[2]>> \in E
    OBVIOUS
  <2> SUFFICES \E S \in SUBSET Products :
                  e[1] \in S /\ \A p \in S : \E q \in S \cup {e[2]} : <<p, q>> \in E
    BY DEF Joined
  <2> WITNESS {e[1]} \in SUBSET Products
  <2> QED
    BY <2>1
<1>5. n # 0 /\ n - 1 < n /\ n \in 1 .. K /\ n - 1 \in 0 .. K
  <2>1. W[0] = E /\ n \in 0 .. K /\ ~\A e \in W[n] : Joined(E, e)
    BY DEF Rounds
  <2>2. n # 0
    BY <1>4, <2>1
  <2> QED
    BY <2>1, <2>2
<1>6. \A e \in W[n - 1] : Joined(E, e)
  BY <1>3, <1>5
<1>7. ASSUME NEW e \in Round(E, W[n - 1]) PROVE Joined(E, e)
  <2>1. PICK c \in Products : <<e[1], c>> \in W[n - 1] /\ <<c, e[2]>> \in E
    BY <1>7 DEF Round
  <2>2. Joined(E, <<e[1], c>>)
    BY <1>6, <2>1
  <2>3. PICK S \in SUBSET Products : e[1] \in S /\ \A p \in S : \E q \in S \cup {c} : <<p, q>> \in E
    BY <2>2 DEF Joined
  <2> SUFFICES \E D \in SUBSET Products :
                  e[1] \in D /\ \A p \in D : \E q \in D \cup {e[2]} : <<p, q>> \in E
    BY DEF Joined
  <2> WITNESS S \cup {c} \in SUBSET Products
  <2> QED
    BY <2>1, <2>3
<1> QED
  BY <1>3, <1>5, <1>6, <1>7 DEF Rounds

\* A circle of the fewest products is walked from one of them back to it: what
\* the rounds reach of it grows until all of it is reached, and no set of
\* products grows more often than it has members.
LEMMA CirclesAreWalked ==
  ASSUME NEW E, NEW W, NEW K \in Nat, K = Cardinality(Products), Rounds(E, K, W),
         NEW S \in SUBSET Products, Circle(E, S),
         \A C \in SUBSET Products : Circle(E, C) => ~(Cardinality(C) < Cardinality(S))
  PROVE  \E p \in Products : <<p, p>> \in W[K]
<1>1. PICK p : p \in S /\ p \in Products
  BY DEF Circle
<1> DEFINE Reached(n) == {q \in S : <<p, q>> \in W[n]}
<1>2. \A n \in 0 .. K : /\ Reached(n) \subseteq S /\ IsFiniteSet(S) /\ IsFiniteSet(Reached(n))
                        /\ Cardinality(Reached(n)) \in Nat /\ Cardinality(S) \in Nat
                        /\ Cardinality(Reached(n)) <= Cardinality(S)
                        /\ Cardinality(S) <= K
                        /\ Cardinality(Reached(n)) = Cardinality(S) => Reached(n) = S
  <2> TAKE n \in 0 .. K
  <2>1. IsFiniteSet(S) /\ Cardinality(S) <= K /\ Cardinality(S) \in Nat
    BY FS_Subset, FS_CardinalityType, ProductsAssumption
  <2>2. Reached(n) \in SUBSET S
    OBVIOUS
  <2> HIDE DEF Reached
  <2>3. /\ IsFiniteSet(Reached(n)) /\ Cardinality(Reached(n)) <= Cardinality(S)
        /\ Cardinality(Reached(n)) = Cardinality(S) => Reached(n) = S
    BY <2>1, <2>2, FS_Subset
  <2> QED
    BY <2>1, <2>2, <2>3, FS_CardinalityType
<1>3. Reached(0) # {}
  BY <1>1 DEF Circle, Rounds
<1>4. \A n \in 1 .. K : Reached(n - 1) \subseteq Reached(n)
  BY DEF Rounds
\* What is reached and does not grow is a circle of its own, so it is S.
<1>5. ASSUME NEW n \in 1 .. K, Reached(n) = Reached(n - 1), Reached(n - 1) # {}
      PROVE  p \in Reached(n)
  <2>1. ASSUME NEW q \in Reached(n) PROVE \E s \in Reached(n) : <<q, s>> \in E
    <3>1. q \in S /\ <<p, q>> \in W[n - 1] /\ q \in Products
      BY <1>5, <2>1
    <3>2. PICK s \in S : <<q, s>> \in E
      BY <3>1 DEF Circle
    <3>3. <<p, s>> \in Round(E, W[n - 1])
      BY <1>1, <3>1, <3>2 DEF Round
    <3>4. <<p, s>> \in W[n]
      BY <3>3 DEF Rounds
    <3> QED
      BY <3>2, <3>4
  <2>2. Reached(n) \in SUBSET Products /\ Circle(E, Reached(n))
    <3>1. Reached(n) \in SUBSET Products
      OBVIOUS
    <3> HIDE DEF Reached
    <3> QED
      BY <1>5, <2>1, <3>1 DEF Circle
  <2>3. ~(Cardinality(Reached(n)) < Cardinality(S)) /\ n \in 0 .. K
    <3> HIDE DEF Reached
    <3> QED
      BY <2>2
  <2> HIDE DEF Reached
  <2>4. Reached(n) = S
    BY <1>2, <2>3
  <2> QED
    BY <1>1, <2>4
\* Once reached, for good.
<1>6. ASSUME NEW n \in 0 .. K, p \in Reached(n) PROVE p \in Reached(K)
  <2> DEFINE T == {m \in n .. K : p \notin Reached(m)}
  <2> HIDE DEF Reached
  <2>1. SUFFICES ASSUME T # {} PROVE FALSE
    <3>1. K \in n .. K
      OBVIOUS
    <3> QED
      BY <3>1
  <2>2. T \in SUBSET Nat
    OBVIOUS
  <2>3. PICK m \in T : \A j \in T : ~(j < m)
    <3> HIDE DEF T
    <3> QED
      BY <2>1, <2>2, Smallest
  <2>4. m # n /\ m - 1 \in n .. K /\ m - 1 < m /\ m \in 1 .. K
    BY <1>6, <2>3
  <2>5. p \in Reached(m - 1)
    BY <2>3, <2>4
  <2> QED
    BY <1>4, <2>3, <2>4, <2>5
<1>7. p \in Reached(K)
  <2> SUFFICES ASSUME p \notin Reached(K) PROVE FALSE
    OBVIOUS
  <2> HIDE DEF Reached
  <2> DEFINE T == {n \in 0 .. K : ~(n < Cardinality(Reached(n)))}
  <2>1. T # {} /\ T \in SUBSET Nat
    <3>1. K \in 0 .. K
      OBVIOUS
    <3> QED
      BY <1>2, <3>1
  <2>2. PICK n \in T : \A m \in T : ~(m < n)
    <3> HIDE DEF T
    <3> QED
      BY <2>1, Smallest
  <2>3. n # 0
    <3>1. 0 \in 0 .. K
      OBVIOUS
    <3>2. IsFiniteSet(Reached(0)) /\ Reached(0) # {}
      BY <1>2, <1>3, <3>1
    <3>3. Cardinality(Reached(0)) # 0
      BY <3>2, FS_EmptySet
    <3> QED
      BY <1>2, <2>2, <3>1, <3>3
  <2>4. n \in 1 .. K /\ n - 1 \in 0 .. K /\ n - 1 < n /\ n \in 0 .. K
    BY <2>2, <2>3
  <2>5. n - 1 < Cardinality(Reached(n - 1))
    BY <2>2, <2>4
  <2>6. Cardinality(Reached(n - 1)) <= Cardinality(Reached(n))
        /\ (Cardinality(Reached(n)) = Cardinality(Reached(n - 1)) => Reached(n) = Reached(n - 1))
    <3>1. Reached(n - 1) \in SUBSET Reached(n) /\ IsFiniteSet(Reached(n))
      BY <1>2, <1>4, <2>4
    <3> QED
      BY <3>1, FS_Subset
  <2>7. Cardinality(Reached(n)) \in Nat /\ Cardinality(Reached(n - 1)) \in Nat
    BY <1>2, <2>4
  <2>8. ~(n < Cardinality(Reached(n)))
    BY <2>2
  <2>9. Cardinality(Reached(n)) = Cardinality(Reached(n - 1))
    BY <2>4, <2>5, <2>6, <2>7, <2>8
  <2>10. Reached(n - 1) # {}
    <3> SUFFICES ASSUME Reached(n - 1) = {} PROVE FALSE
      OBVIOUS
    <3>1. Cardinality(Reached(n - 1)) = 0
      BY FS_EmptySet
    <3> QED
      BY <2>4, <2>5, <3>1
  <2>11. p \in Reached(n)
    BY <1>5, <2>4, <2>6, <2>9, <2>10
  <2> QED
    BY <1>6, <2>4, <2>11
<1> QED
  BY <1>1, <1>7

\* The recursive query finds a cycle exactly when there is one.
THEOREM QueryFindsCycles ==
  ASSUME NEW E \in SUBSET (Products \X Products)
  PROVE  HasCycle(E) <=> \E S \in SUBSET Products : Circle(E, S)
<1>1. PICK W : Walk(E) = W[Cardinality(Products)] /\ Rounds(E, Cardinality(Products), W)
  BY WalkGrows
<1>2. Cardinality(Products) \in Nat
  BY FS_CardinalityType, ProductsAssumption
<1>3. ASSUME HasCycle(E) PROVE \E S \in SUBSET Products : Circle(E, S)
  <2>1. PICK p \in Products : <<p, p>> \in W[Cardinality(Products)]
    BY <1>1, <1>3 DEF HasCycle
  <2>2. Joined(E, <<p, p>>)
    BY <1>1, <1>2, <2>1, WalksAreJoined
  <2>3. PICK S \in SUBSET Products : p \in S /\ \A s \in S : \E q \in S \cup {p} : <<s, q>> \in E
    BY <2>2 DEF Joined
  <2> WITNESS S \in SUBSET Products
  <2> QED
    BY <2>3 DEF Circle
<1>4. ASSUME NEW C \in SUBSET Products, Circle(E, C) PROVE HasCycle(E)
  <2> DEFINE T == {Cardinality(S) : S \in {D \in SUBSET Products : Circle(E, D)}}
  <2>1. T # {} /\ T \in SUBSET Nat
    BY <1>4, FS_Subset, FS_CardinalityType, ProductsAssumption
  <2>2. PICK n \in T : \A m \in T : ~(m < n)
    <3> HIDE DEF T
    <3> QED
      BY <2>1, Smallest
  <2>3. PICK S \in SUBSET Products : Circle(E, S) /\ n = Cardinality(S)
    BY <2>2
  <2>4. \A D \in SUBSET Products : Circle(E, D) => ~(Cardinality(D) < Cardinality(S))
    BY <2>2, <2>3
  <2>5. \E p \in Products : <<p, p>> \in W[Cardinality(Products)]
    BY <1>1, <1>2, <2>3, <2>4, CirclesAreWalked
  <2> QED
    BY <1>1, <2>5 DEF HasCycle
<1> QED
  BY <1>3, <1>4

LEMMA EmptyIsAcyclic == ~HasCycle({})
<1>1. \A S \in SUBSET Products : ~Circle({}, S)
  BY DEF Circle
<1> QED
  BY <1>1, QueryFindsCycles

\* What CheckCycles found stays so until another save commits.
CheckedSaves ==
    \A r \in Requests : requests[r].step = "commit" /\ ~requests[r].behind =>
        ~HasCycle(Edges(AsSaved(r)))

CyclesInv == AcyclicUnlessCrossed /\ CheckedSaves

LEMMA InitCycles == Init => CyclesInv
<1> SUFFICES ASSUME Init PROVE CyclesInv
  OBVIOUS
<1>1. Edges(groups) = {}
  BY DEF Init, Edges, Requires
<1>2. CheckedSaves
  BY IdleType DEF Init, CheckedSaves
<1> QED
  BY <1>1, <1>2, EmptyIsAcyclic DEF CyclesInv, AcyclicUnlessCrossed

\* Nothing but CheckCycles brings a request to its commit.
Stays(q) ==
    requests'[q].step = "commit" =>
       /\ requests[q].step = "commit"
       /\ requests'[q].form = requests[q].form /\ requests'[q].behind = requests[q].behind

LEMMA OvertakingStays ==
  ASSUME IInv, NEW R \in [Requests -> RequestType], NEW r, requests' = Overtaken(R, r),
         \A q \in Requests : R[q] \in {requests[q], Idle}
  PROVE  \A q \in Requests : Stays(q)
<1> SUFFICES ASSUME NEW q \in Requests, requests'[q].step = "commit"
             PROVE  /\ requests[q].step = "commit"
                    /\ requests'[q].form = requests[q].form /\ requests'[q].behind = requests[q].behind
  BY DEF Stays
<1>1. /\ requests'[q].step = R[q].step /\ requests'[q].form = R[q].form
      /\ requests'[q].behind = R[q].behind
  BY OvertakenTypes
<1> QED
  BY <1>1, IdleType

LEMMA WritingStays ==
  ASSUME IInv, WriteAtOnce \/ \E r \in Requests : Write(r)
  PROVE  \A q \in Requests : Stays(q)
<1>1. CASE WriteAtOnce
  BY <1>1, TypesOf, OvertakingStays DEF WriteAtOnce
<1>2. ASSUME NEW r \in Requests, Write(r) PROVE \A q \in Requests : Stays(q)
  <2> DEFINE R == [requests EXCEPT ![r] = Idle]
  <2>1. R \in [Requests -> RequestType] /\ \A q \in Requests : R[q] \in {requests[q], Idle}
    BY TypesOf, IdleType
  <2>2. requests' = Overtaken(R, r)
    BY <1>2 DEF Write
  <2> HIDE DEF R
  <2> QED
    BY <2>1, <2>2, OvertakingStays
<1> QED
  BY <1>1, <1>2

LEMMA GoingStays ==
  ASSUME IInv, NEW r \in Requests, NEW s \in Steps, s # "commit",
         \/ End(r)
         \/ Go(r, s)
         \/ \E request : request.step # "commit" /\ requests' = [requests EXCEPT ![r] = request]
  PROVE  \A q \in Requests : Stays(q)
BY TypesOf, IdleType DEF End, Go, Stays, RequestType

LEMMA QuietSteps ==
  ASSUME IInv, Next, \A r \in Requests : ~Commit(r) /\ ~(CheckCycles(r) /\ Go(r, "commit"))
  PROVE  UNCHANGED <<groups, crossed>> /\ \A q \in Requests : Stays(q)
<1>1. UNCHANGED <<groups, crossed>>
  BY DEF Next, Save, Delete, DeleteCategory, Edit, EndEarly, StartSave, WriteProduct, ReplaceDependencies,
     CheckCycles, StartDelete, CheckRequired, FinishDelete, StartDeleteCategory, CheckCategoryUsed,
     FinishDeleteCategory, PickProducts, CheckSelection, SaveItems, RestoreProduct, ArchiveProduct,
     RestoreCategory, SaveCategory, ArchiveCategory, SetProduct, SetCategory, catalog, history
<1>2. ASSUME NEW r \in Requests, StartSave(r) \/ StartDelete(r) \/ StartDeleteCategory(r) \/ PickProducts(r)
      PROVE  \A q \in Requests : Stays(q)
  <2>1. \E request : request.step # "commit" /\ requests' = [requests EXCEPT ![r] = request]
    <3>1. ASSUME NEW f PROVE [Idle EXCEPT !.step = "write", !.form = f].step # "commit"
      BY DEF Idle
    <3>2. ASSUME NEW p, NEW b PROVE [Idle EXCEPT !.step = IF b THEN "archive" ELSE "required", !.target = p].step # "commit"
      BY DEF Idle
    <3>3. ASSUME NEW p, NEW b PROVE [Idle EXCEPT !.step = IF b THEN "c_archive" ELSE "c_used", !.target = p].step # "commit"
      BY DEF Idle
    <3>4. ASSUME NEW S PROVE [Idle EXCEPT !.step = "validate", !.picked = S].step # "commit"
      BY DEF Idle
    <3>5. CASE StartSave(r)
      BY <3>1, <3>5 DEF StartSave
    <3>6. CASE StartDelete(r)
      BY <3>2, <3>6 DEF StartDelete
    <3>7. CASE StartDeleteCategory(r)
      BY <3>3, <3>7 DEF StartDeleteCategory
    <3>8. CASE PickProducts(r)
      BY <3>4, <3>8 DEF PickProducts
    <3> QED
      BY <1>2, <3>5, <3>6, <3>7, <3>8
  <2>2. "idle" \in Steps /\ "idle" # "commit"
    BY DEF Steps
  <2> QED
    BY <2>1, <2>2, GoingStays
<1>3. ASSUME NEW r \in Requests,
             WriteProduct(r) \/ ReplaceDependencies(r) \/ CheckCycles(r) \/ CheckRequired(r)
                \/ CheckCategoryUsed(r) \/ CheckSelection(r) \/ EndEarly(r)
      PROVE  \A q \in Requests : Stays(q)
  <2>1. End(r) \/ \E s \in Steps : s # "commit" /\ Go(r, s)
    BY <1>3 DEF WriteProduct, ReplaceDependencies, CheckCycles, CheckRequired, CheckCategoryUsed,
       CheckSelection, EndEarly, Steps
  <2>2. "idle" \in Steps /\ "idle" # "commit"
    BY DEF Steps
  <2> QED
    BY <2>1, <2>2, GoingStays
<1>4. ASSUME NEW r \in Requests, FinishDelete(r) \/ FinishDeleteCategory(r) \/ SaveItems(r)
      PROVE  \A q \in Requests : Stays(q)
  <2>1. End(r) \/ Write(r)
    BY <1>4 DEF FinishDelete, FinishDeleteCategory, SaveItems
  <2>2. "idle" \in Steps /\ "idle" # "commit"
    BY DEF Steps
  <2> QED
    BY <2>1, <2>2, GoingStays, WritingStays
<1>5. ASSUME \/ \E p \in Products : RestoreProduct(p) \/ \E archived \in BOOLEAN : ArchiveProduct(p, archived)
             \/ \E c \in Categories : \/ RestoreCategory(c)
                                      \/ \E b \in BOOLEAN : SaveCategory(c, b) \/ ArchiveCategory(c, b)
      PROVE  \A q \in Requests : Stays(q)
  BY <1>5, WritingStays DEF RestoreProduct, ArchiveProduct, RestoreCategory, SaveCategory, ArchiveCategory
<1> QED
  BY <1>1, <1>2, <1>3, <1>4, <1>5 DEF Next, Save, Delete, DeleteCategory, Edit

LEMMA SameGroups ==
  ASSUME NEW q \in Requests, groups' = groups, requests'[q].form = requests[q].form
  PROVE  AsSaved(q)' = AsSaved(q)
BY DEF AsSaved, Saving, Written

LEMMA StepCycles == IInv /\ CyclesInv /\ [Next]_vars => CyclesInv'
<1> SUFFICES ASSUME IInv, CyclesInv, [Next]_vars PROVE CyclesInv'
  OBVIOUS
<1>1. ASSUME UNCHANGED <<groups, crossed>>, \A q \in Requests : Stays(q) PROVE CyclesInv'
  <2>1. AcyclicUnlessCrossed'
    BY <1>1 DEF CyclesInv, AcyclicUnlessCrossed, Edges, Requires
  <2>2. ASSUME NEW q \in Requests, requests'[q].step = "commit", ~requests'[q].behind
        PROVE  ~HasCycle(Edges(AsSaved(q)'))
    <3>1. /\ requests[q].step = "commit" /\ requests'[q].form = requests[q].form
          /\ ~requests[q].behind
      BY <1>1, <2>2 DEF Stays
    <3>2. AsSaved(q)' = AsSaved(q)
      BY <1>1, <3>1, SameGroups
    <3> QED
      BY <3>1, <3>2 DEF CyclesInv, CheckedSaves
  <2> QED
    BY <2>1, <2>2 DEF CyclesInv, CheckedSaves, HasCycle, Walk, Edges, Requires
<1>2. CASE UNCHANGED vars
  BY <1>1, <1>2 DEF vars, catalog, history, Stays
<1>3. ASSUME NEW r \in Requests, CheckCycles(r), Go(r, "commit") PROVE CyclesInv'
  <2>1. UNCHANGED <<groups, crossed>> /\ requests[r].step = "cycles"
    BY <1>3 DEF CheckCycles, At, catalog, history
  <2>2. /\ \A q \in Requests \ {r} : requests'[q] = requests[q]
        /\ requests'[r].form = requests[r].form /\ requests'[r].step = "commit"
    BY <1>3, TypesOf DEF Go, RequestType
  <2>3. ~HasCycle(Edges(AsSaved(r)))
    <3>1. requests'[r].step # "idle"
      BY <2>2
    <3>2. ~End(r)
      BY <3>1, TypesOf, IdleType DEF End
    <3> QED
      BY <1>3, <3>2 DEF CheckCycles, Checked
  <2>4. AcyclicUnlessCrossed'
    BY <2>1 DEF CyclesInv, AcyclicUnlessCrossed, Edges, Requires
  <2>5. ASSUME NEW q \in Requests, requests'[q].step = "commit", ~requests'[q].behind
        PROVE  ~HasCycle(Edges(AsSaved(q)'))
    <3>1. requests'[q].form = requests[q].form
      BY <2>2
    <3>2. AsSaved(q)' = AsSaved(q)
      BY <2>1, <3>1, SameGroups
    <3>3. CASE q = r
      BY <2>3, <3>2, <3>3
    <3>4. CASE q # r
      BY <2>2, <2>5, <3>2, <3>4 DEF CyclesInv, CheckedSaves
    <3> QED
      BY <3>3, <3>4
  <2> QED
    BY <2>4, <2>5 DEF CyclesInv, CheckedSaves, HasCycle, Walk, Edges, Requires
<1>4. ASSUME NEW r \in Requests, Commit(r) PROVE CyclesInv'
  <2> DEFINE R == Overtaken([requests EXCEPT ![r] = Idle], r)
  <2>1. requests' = Behind(R) /\ groups' = AsSaved(r) /\ crossed' = requests[r].behind
        /\ requests[r].step = "commit"
    BY <1>4 DEF Commit, At
  <2>2. AcyclicUnlessCrossed'
    <3>1. ~requests[r].behind => ~HasCycle(Edges(groups'))
      BY <2>1 DEF CyclesInv, CheckedSaves
    <3> QED
      BY <2>1, <3>1 DEF AcyclicUnlessCrossed, HasCycle, Walk, Edges, Requires
  <2>3. [requests EXCEPT ![r] = Idle] \in [Requests -> RequestType]
    BY TypesOf, IdleType
  <2>4. R \in [Requests -> RequestType]
    BY <2>3, OvertakenTypes, Zenon
  <2> HIDE DEF R
  <2>5. ASSUME NEW q \in Requests, requests'[q].step = "commit" PROVE requests'[q].behind
    <3>1. requests'[q] = IF R[q].step = "commit" THEN [R[q] EXCEPT !.behind = TRUE] ELSE R[q]
      BY <2>1 DEF Behind
    <3>2. R[q] \in RequestType
      BY <2>4
    <3> QED
      BY <2>5, <3>1, <3>2 DEF RequestType
  <2> QED
    BY <2>2, <2>5 DEF CyclesInv, CheckedSaves
<1> QED
  BY <1>1, <1>2, <1>3, <1>4, QuietSteps

\* However saves interleave, the dependencies have no cycle unless the last
\* save missed one that was committed between its own cycle check and its
\* commit.
THEOREM CyclesAreSeen == Spec => []AcyclicUnlessCrossed
<1>1. Spec => []CyclesInv
  BY InitCycles, StepCycles, Invariant, PTL DEF Spec
<1>2. CyclesInv => AcyclicUnlessCrossed
  BY DEF CyclesInv
<1> QED
  BY <1>1, <1>2, PTL

\* That query being right, no products require one another in a circle, unless
\* the last save missed one that was committed in between.
NoCircleUnlessCrossed == crossed \/ \A S \in SUBSET Products : ~Circle(Edges(groups), S)
THEOREM NothingRequiresItself == Spec => []NoCircleUnlessCrossed
<1>1. AcyclicUnlessCrossed => NoCircleUnlessCrossed
  <2>1. Edges(groups) \in SUBSET (Products \X Products)
    BY DEF Edges
  <2> QED
    BY <2>1, QueryFindsCycles DEF AcyclicUnlessCrossed, NoCircleUnlessCrossed
<1> QED
  BY <1>1, CyclesAreSeen, PTL

=============================================================================
