\* One process, one prospect with a reply and an opt-out to send, a sequence of three steps,
\* and a conversation more than it needs.
SPECIFICATION Spec
CONSTANTS
  Prospects = {1}
  Actors = {a1}
  Conversations = {c1, c2}
  Messages = {1, 2}
  OptOuts = {1}
  Drafts = {d1, d2}
  LastStep = 3
  MaxItems = 1
  MaxAborts = 1
  NoProspect = NoProspect
  NoConversation = NoConversation
  NoDraft = NoDraft
INVARIANTS FollowUpTypeOK RepliesEndFollowUps OptOutIsFinal FollowUpsContinueTheSequence
SYMMETRY Symmetry
