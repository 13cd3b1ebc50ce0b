SPECIFICATION Spec
CONSTANTS
    p1 = p1
    p2 = p2
    p3 = p3
    c1 = c1
    c2 = c2
    Products <- MCProducts
    Categories <- MCCategories
    Forms <- MCForms
    CategoryForms <- MCCategoryForms
    Seeded <- MCSeeded
    Managed <- MCManaged
    Selections <- MCSelections
    Requests = {r1, r2}
    Nothing = Nothing
CHECK_DEADLOCK FALSE
SYMMETRY MCSymmetry
INVARIANTS
    AcyclicUnlessCrossed
    KeptUnlessTorn
PROPERTIES
    SavedItemsAreValid
