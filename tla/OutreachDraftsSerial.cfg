\* One caller at a time (it may die between any two accesses): the whole contract of the store.
SPECIFICATION Spec
CONSTANTS
  Actors = {a1}
  Drafts = {d1, d2, d3}
  Prospects = {p1, p2}
  NoDraft = NoDraft
  NoProspect = NoProspect
  MaxRows = 6
INVARIANTS ApprovalNeverSkipsReview
PROPERTIES ImplementsRegistry DecisionsStand
