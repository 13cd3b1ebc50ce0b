----------------------------- MODULE MCCatalog -----------------------------
(* Two operators, three products; the forms can close a cycle of two in      *)
(* concurrent saves and leave a product that requires a deleted one.         *)
EXTENDS Catalog, TLC

CONSTANTS p1, p2, p3, c1, c2

Form(p, c, G) == [product |-> p, category |-> c, active |-> TRUE, groups |-> G]
AllOf(S) == [mode |-> "all", required |-> S]
AnyOf(S) == [mode |-> "any", required |-> S]

MCProducts == {p1, p2, p3}
MCCategories == {c1, c2}
MCSeeded == [p \in {p1, p3} |-> c1]
MCForms == {Form(p1, c1, {}), Form(p1, c1, {AllOf({p2, p3})}),
            Form(p2, c2, {AnyOf({})}), Form(p2, c2, {AnyOf({p1, p3})})}
MCCategoryForms == {<<c2, TRUE>>}
MCManaged == {p2, c2}
MCSelections == {{p1, p2}, {p1, p2, p3}}
MCSymmetry == Permutations(Requests)

\* The walk of the query finds a cycle exactly when some products all require
\* one another in a circle: every one of them has a successor among them.
ASSUME WalkFindsCycles ==
    \A E \in SUBSET (Products \X Products) :
        HasCycle(E) <=> \E S \in SUBSET Products \ {{}} :
                           \A p \in S : \E q \in S : <<p, q>> \in E

=============================================================================
