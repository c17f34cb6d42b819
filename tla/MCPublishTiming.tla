--------------------------- MODULE MCPublishTiming ---------------------------
(* TLC instances of PublishTiming: one other thread, two token lifetimes.  *)
EXTENDS PublishTiming

CONSTANTS w1

OneOther == {w1}

(* One too short to be cached, one that is used from the cache.            *)
ShortAndLong == {FetchTimeout + OtherTimeout + 1, Margin + 2}
=============================================================================
