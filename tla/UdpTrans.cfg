\* Requests and replies, late, lost and repeated.
SPECIFICATION Spec
CONSTANTS
  s1 = s1
  s2 = s2
  s3 = s3
  Senders <- AllSenders
  Long = 16
  IntHalf = 2
  Junk = {0}
  MaxCalls <- OneTwice
INVARIANTS ReplyIsOwn WaitersListed
PROPERTIES Returns
CHECK_DEADLOCK FALSE
