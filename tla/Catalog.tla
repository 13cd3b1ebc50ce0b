------------------------------ MODULE Catalog ------------------------------
(***************************************************************************)
(* The product catalog: categories, products, the dependencies between     *)
(* products and the proposals that offer them.                             *)
(*                                                                         *)
(* SaveProduct is a READ COMMITTED transaction: each of its statements     *)
(* sees what others have committed until then, and it holds the lock of    *)
(* its product row from the first write to the commit.  The deletions are  *)
(* single statements that commit one by one, and an editor reads the       *)
(* catalog before the transaction that saves the proposal.  An action is   *)
(* one statement; the existence check a request begins with is taken       *)
(* together with its next read.                                            *)
(***************************************************************************)
EXTENDS Naturals, FiniteSets

CONSTANTS
    Products, Categories,
    Seeded,         \* category of the products there from the start
    Forms, CategoryForms,   \* forms an operator may post
    Managed,        \* products and categories operators archive, delete and restore
    Selections,     \* sets of products an editor may select
    Requests,       \* requests that may be under way at once
    Nothing         \* no form, no target

Modes == {"any", "all"}
Groups == [mode : Modes, required : SUBSET Products]
ASSUME FormsAssumption ==
    Forms \subseteq [product : Products, category : Categories, active : BOOLEAN, groups : SUBSET Groups]
ASSUME CategoryFormsAssumption == CategoryForms \subseteq Categories \X BOOLEAN
ASSUME NothingAssumption == Nothing \notin Forms \cup Products \cup Categories \cup Requests
ASSUME ProductsAssumption == IsFiniteSet(Products)
ASSUME SeededAssumption == \E S \in SUBSET Products : Seeded \in [S -> Categories]
ASSUME SelectionsAssumption == Selections \subseteq SUBSET Products

VARIABLES
    categories, products,   \* rows
    groups,         \* product_dependency_groups and product_dependencies, by owner
    items,          \* proposal_items: product and category of each
    requests,
    restored,       \* history: products restored and not saved since
    crossed,        \* history: the last save missed one committed since its cycle check
    torn            \* history: a request wrote although another had written since it began

catalog == <<categories, products, groups>>
history == <<restored, crossed, torn>>
vars == <<catalog, items, requests, history>>

Steps == {"idle", "write", "dependencies", "cycles", "commit",
          "required", "delete", "archive",
          "c_used", "c_delete", "c_archive",
          "validate", "save"}
Row == [exists : BOOLEAN, active : BOOLEAN, archived : BOOLEAN, deleted : BOOLEAN]

TypeOK ==
    /\ categories \in [Categories -> Row]
    /\ products \in [Products -> [row : Row, category : Categories]]
    /\ groups \in [Products -> SUBSET Groups]
    /\ \A p \in Products : \A g \in groups[p] : g.required # {} /\ p \notin g.required
    /\ items \subseteq Products \X Categories
    /\ requests \in [Requests -> [step : Steps, form : Forms \cup {Nothing},
                                  target : Products \cup Categories \cup {Nothing},
                                  picked : SUBSET (Products \X Categories),
                                  stale : BOOLEAN, behind : BOOLEAN]]
    /\ restored \subseteq Products
    /\ crossed \in BOOLEAN /\ torn \in BOOLEAN

NoRow == [exists |-> FALSE, active |-> FALSE, archived |-> FALSE, deleted |-> FALSE]
NewRow(active) == [NoRow EXCEPT !.exists = TRUE, !.active = active]
SeededRow == [NoRow EXCEPT !.exists = TRUE, !.active = TRUE]
Idle == [step |-> "idle", form |-> Nothing, target |-> Nothing, picked |-> {},
         stale |-> FALSE, behind |-> FALSE]

Init ==
    /\ products \in [Products -> [row : {NoRow, SeededRow}, category : Categories]]
    /\ \A p \in Products :
          IF p \in DOMAIN Seeded THEN products[p] = [row |-> SeededRow, category |-> Seeded[p]]
          ELSE products[p].row = NoRow
    /\ categories = [c \in Categories |-> IF \E p \in DOMAIN Seeded : Seeded[p] = c
                                         THEN SeededRow ELSE NoRow]
    /\ groups = [p \in Products |-> {}]
    /\ items = {}
    /\ requests = [r \in Requests |-> Idle]
    /\ restored = {} /\ crossed = FALSE /\ torn = FALSE

----------------------------------------------------------------------------
(* Helpers *)

At(r, step) == requests[r].step = step
Go(r, step) == requests' = [requests EXCEPT ![r].step = step]
End(r) == requests' = [requests EXCEPT ![r] = Idle]

Live(row) == row.exists /\ ~row.deleted
OnSale(row) == Live(row) /\ row.active /\ ~row.archived
LiveProduct(p) == Live(products[p].row)
LiveCategory(c) == Live(categories[c])

Requires(G, p) == UNION {g.required : g \in G[p]}
Edges(G) == {e \in Products \X Products : e[2] \in Requires(G, e[1])}

\* The recursive query: walk starts with the edges and grows by one edge a
\* round; no path needs more rounds than there are products.
Walk(E) ==
    LET walk[n \in 0 .. Cardinality(Products)] ==
            IF n = 0 THEN E
            ELSE walk[n - 1] \cup
                 {e \in Products \X Products :
                    \E p \in Products : <<e[1], p>> \in walk[n - 1] /\ <<p, e[2]>> \in E}
    IN walk[Cardinality(Products)]
HasCycle(E) == \E p \in Products : <<p, p>> \in Walk(E)

\* History of a write by r that moves requests on to NewRequests: whoever
\* else is under way has read what may no longer be so.
Overtaken(NewRequests, r) ==
    [q \in Requests |-> IF q = r \/ NewRequests[q].step = "idle" THEN NewRequests[q]
                        ELSE [NewRequests[q] EXCEPT !.stale = TRUE]]
Write(r) ==
    /\ requests' = Overtaken([requests EXCEPT ![r] = Idle], r)
    /\ torn' = (torn \/ requests[r].stale)
WriteAtOnce ==
    /\ requests' = Overtaken(requests, Nothing)
    /\ UNCHANGED torn

----------------------------------------------------------------------------
(* SaveProduct *)

StartSave(r) ==
    /\ At(r, "idle")
    /\ \E f \in Forms :
          /\ LiveCategory(f.category)
          /\ requests' = [requests EXCEPT ![r] = [Idle EXCEPT !.step = "write", !.form = f]]
    /\ UNCHANGED <<catalog, items, history>>

Saving(r) == requests[r].form.product
LockedBy(r, p) == requests[r].step \in {"dependencies", "cycles", "commit"} /\ Saving(r) = p
Unlocked(p) == \A r \in Requests : ~LockedBy(r, p)

\* Insert (which looks at the category again) or update of the product.
WriteProduct(r) ==
    /\ At(r, "write")
    /\ Unlocked(Saving(r))
    /\ LET p == Saving(r)
       IN IF LiveProduct(p) \/ (~products[p].row.exists /\ LiveCategory(requests[r].form.category))
          THEN Go(r, "dependencies") ELSE End(r)
    /\ UNCHANGED <<catalog, items, history>>

\* replaceDependencies: empty groups are skipped.
Written(f) == {g \in f.groups : g.required # {}}
MayRequire(p, q) == q # p /\ OnSale(products[q].row)
ReplaceDependencies(r) ==
    /\ At(r, "dependencies")
    /\ IF \A g \in Written(requests[r].form) : \A q \in g.required : MayRequire(Saving(r), q)
       THEN Go(r, "cycles") ELSE End(r)
    /\ UNCHANGED <<catalog, items, history>>

\* ensureNoDependencyCycles: all committed dependencies, and its own.
AsSaved(r) == [groups EXCEPT ![Saving(r)] = Written(requests[r].form)]
CheckedOwn(r) == {e \in Edges(AsSaved(r)) : e[1] = Saving(r)}   \* mutant: its own alone
Checked(r) == Edges(AsSaved(r))
CheckCycles(r) ==
    /\ At(r, "cycles")
    /\ IF HasCycle(Checked(r)) THEN End(r) ELSE Go(r, "commit")
    /\ UNCHANGED <<catalog, items, history>>

\* The requests that have checked for cycles are behind now.
Behind(NewRequests) ==
    [q \in Requests |-> IF NewRequests[q].step = "commit"
                        THEN [NewRequests[q] EXCEPT !.behind = TRUE] ELSE NewRequests[q]]
Commit(r) ==
    /\ At(r, "commit")
    /\ LET p == Saving(r)
           f == requests[r].form
           row == products[p].row
       IN /\ products' = [products EXCEPT ![p] =
                [row |-> IF row.exists THEN [row EXCEPT !.active = f.active] ELSE NewRow(f.active),
                 category |-> f.category]]
          /\ groups' = AsSaved(r)
          /\ restored' = restored \ {p}
    /\ requests' = Behind(Overtaken([requests EXCEPT ![r] = Idle], r))
    /\ torn' = (torn \/ requests[r].stale)
    /\ crossed' = requests[r].behind
    /\ UNCHANGED <<categories, items>>

----------------------------------------------------------------------------
(* UpdateProductLifecycle *)

SetProduct(p, row) ==
    /\ Unlocked(p)
    /\ products' = [products EXCEPT ![p].row = row]
    /\ UNCHANGED <<categories, groups, items, crossed>>

ArchiveProduct(p, archived) ==
    /\ LiveProduct(p) /\ p \in Managed
    /\ SetProduct(p, [products[p].row EXCEPT !.archived = archived])
    /\ WriteAtOnce
    /\ UNCHANGED restored

Restorable(p) == LiveCategory(products[p].category)
RestoreProduct(p) ==
    /\ products[p].row.deleted /\ Restorable(p)
    /\ SetProduct(p, [products[p].row EXCEPT !.deleted = FALSE])
    /\ WriteAtOnce
    /\ restored' = restored \cup {p}

NeverUsed(p) == FALSE                           \* mutant: the question left out
Used(p) == \E i \in items : i[1] = p
StartDelete(r) ==
    /\ At(r, "idle")
    /\ \E p \in Products \cap Managed :
          /\ LiveProduct(p)
          /\ requests' = [requests EXCEPT ![r] =
                [Idle EXCEPT !.step = IF Used(p) THEN "archive" ELSE "required", !.target = p]]
    /\ UNCHANGED <<catalog, items, history>>

Owners == {p \in Products : LiveProduct(p)}
CheckRequired(r) ==
    /\ At(r, "required")
    /\ Go(r, IF \E p \in Owners : requests[r].target \in Requires(groups, p) THEN "archive" ELSE "delete")
    /\ UNCHANGED <<catalog, items, history>>

FinishDelete(r) ==
    /\ At(r, "delete") \/ At(r, "archive")
    /\ LET p == requests[r].target
       IN IF LiveProduct(p)
          THEN /\ SetProduct(p, [products[p].row EXCEPT !.deleted = At(r, "delete"),
                                                        !.archived = @ \/ At(r, "archive")])
               /\ Write(r)
          ELSE /\ Unlocked(p) /\ End(r)
               /\ UNCHANGED <<catalog, items, crossed, torn>>
    /\ UNCHANGED restored

----------------------------------------------------------------------------
(* SaveCategory, UpdateCategoryLifecycle *)

SetCategory(c, row) ==
    /\ categories' = [categories EXCEPT ![c] = row]
    /\ UNCHANGED <<products, groups, items, restored, crossed>>

SaveCategory(c, active) ==
    /\ <<c, active>> \in CategoryForms
    /\ ~categories[c].deleted
    /\ SetCategory(c, IF categories[c].exists THEN [categories[c] EXCEPT !.active = active]
                      ELSE NewRow(active))
    /\ WriteAtOnce

ArchiveCategory(c, archived) ==
    /\ LiveCategory(c) /\ c \in Managed
    /\ SetCategory(c, [categories[c] EXCEPT !.archived = archived])
    /\ WriteAtOnce

RestoreCategory(c) ==
    /\ categories[c].deleted
    /\ SetCategory(c, [categories[c] EXCEPT !.deleted = FALSE])
    /\ WriteAtOnce

HasProducts(c) == \E p \in Products : LiveProduct(p) /\ products[p].category = c
StartDeleteCategory(r) ==
    /\ At(r, "idle")
    /\ \E c \in Categories \cap Managed :
          /\ LiveCategory(c)
          /\ requests' = [requests EXCEPT ![r] =
                [Idle EXCEPT !.step = IF HasProducts(c) THEN "c_archive" ELSE "c_used", !.target = c]]
    /\ UNCHANGED <<catalog, items, history>>

CheckCategoryUsed(r) ==
    /\ At(r, "c_used")
    /\ Go(r, IF \E i \in items : i[2] = requests[r].target THEN "c_archive" ELSE "c_delete")
    /\ UNCHANGED <<catalog, items, history>>

FinishDeleteCategory(r) ==
    /\ At(r, "c_delete") \/ At(r, "c_archive")
    /\ LET c == requests[r].target
       IN IF LiveCategory(c)
          THEN /\ SetCategory(c, [categories[c] EXCEPT !.deleted = At(r, "c_delete"),
                                                       !.archived = @ \/ At(r, "c_archive")])
               /\ Write(r)
          ELSE /\ End(r)
               /\ UNCHANGED <<catalog, items, history>>

----------------------------------------------------------------------------
(* The proposal editor: ProductForProposal and ValidateSelection while the  *)
(* form is parsed, the items in the transaction that saves the proposal.    *)

\* The code also lets in what is off sale if this proposal has it already; items are
\* not told apart by proposal here, so what any of them has gets in.
ForProposal(p) ==
    \/ OnSale(products[p].row) /\ OnSale(categories[products[p].category])
    \/ products[p].row.exists /\ Used(p)
PickProducts(r) ==
    /\ At(r, "idle")
    /\ \E S \in Selections :
          /\ \A p \in S : ForProposal(p)
          /\ requests' = [requests EXCEPT ![r] =
                [Idle EXCEPT !.step = "validate", !.picked = {<<p, products[p].category>> : p \in S}]]
    /\ UNCHANGED <<catalog, items, history>>

MatchesAny(g, S) == g.required \cap S # {}      \* mutant
Matches(g, S) == IF g.mode = "any" THEN g.required \cap S # {} ELSE g.required \subseteq S
ValidSelection(S) == \A p \in S : \A g \in groups[p] : Matches(g, S)
CheckSelection(r) ==
    /\ At(r, "validate")
    /\ IF ValidSelection({i[1] : i \in requests[r].picked}) THEN Go(r, "save") ELSE End(r)
    /\ UNCHANGED <<catalog, items, history>>

\* The items of a draft are replaced, those of published versions stay.
SaveItems(r) ==
    /\ At(r, "save")
    /\ items' \in {requests[r].picked, items \cup requests[r].picked}
    /\ Write(r)
    /\ UNCHANGED <<catalog, restored, crossed>>

----------------------------------------------------------------------------

\* A statement fails or the process stops: nothing of the request stays.
EndEarly(r) ==
    /\ ~At(r, "idle")
    /\ End(r)
    /\ UNCHANGED <<catalog, items, history>>

Save(r) == StartSave(r) \/ WriteProduct(r) \/ ReplaceDependencies(r)
              \/ CheckCycles(r) \/ Commit(r)
Delete(r) == StartDelete(r) \/ CheckRequired(r) \/ FinishDelete(r)
DeleteCategory(r) == StartDeleteCategory(r) \/ CheckCategoryUsed(r)
                        \/ FinishDeleteCategory(r)
Edit(r) == PickProducts(r) \/ CheckSelection(r) \/ SaveItems(r)

Next ==
    \/ \E r \in Requests : Save(r) \/ Delete(r) \/ DeleteCategory(r) \/ Edit(r) \/ EndEarly(r)
    \/ \E p \in Products : RestoreProduct(p) \/ \E archived \in BOOLEAN : ArchiveProduct(p, archived)
    \/ \E c \in Categories : \/ RestoreCategory(c)
                             \/ \E b \in BOOLEAN : SaveCategory(c, b) \/ ArchiveCategory(c, b)

Spec == Init /\ [][Next]_vars

----------------------------------------------------------------------------
(* Properties *)

\* The dependencies have no cycle, unless the last save was committed without
\* having seen one that committed after its check: two concurrent saves can
\* each add half of a cycle, the next save that sees them does not go through
\* unless it breaks it.
AcyclicUnlessCrossed == crossed \/ ~HasCycle(Edges(groups))

\* Rows are well formed, and as long as requests do not write on what they read
\* before another's write: what a proposal offers is never deleted, a product's
\* category is there, and so is what it requires, unless it was restored itself
\* (a restore does not look at the requirements, which may have gone meanwhile).
UsedIsKept ==
    \A i \in items : LiveProduct(i[1]) /\ LiveCategory(i[2])
CategoryIsKept ==
    \A p \in Products : LiveProduct(p) => LiveCategory(products[p].category)
RequirementsAreKept ==
    \A p \in Products \ restored : LiveProduct(p) => \A q \in Requires(groups, p) : LiveProduct(q)
KeptUnlessTorn == TypeOK /\ (torn \/ (UsedIsKept /\ CategoryIsKept /\ RequirementsAreKept))

\* A proposal saved on a catalog that has not changed since it was read
\* satisfies the dependencies of every product in it, and adds only what is on
\* sale.
Added == {i[1] : i \in items' \ items}
SavedItemsAreValid ==
    [][\A r \in Requests : (SaveItems(r) /\ ~requests[r].stale) =>
          LET S == {i[1] : i \in requests[r].picked}
          IN /\ \A p \in S : \A g \in groups[p] :
                   IF g.mode = "all" THEN \A q \in g.required : q \in S
                   ELSE \E q \in g.required : q \in S
             /\ \A p \in Added : Used(p) \/ OnSale(products[p].row)]_vars

=============================================================================
