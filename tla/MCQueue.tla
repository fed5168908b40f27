------------------------------- MODULE MCQueue -------------------------------
(* Small instances of OfflineQueue.                                        *)
EXTENDS OfflineQueue

CONSTANTS a, b, c, t1, t2

(* b checks in at a spot that needs the spot of a; c is a claim.           *)
Pair == (a :> {}) @@ (b :> {a}) @@ (c :> {})

(* One tab behind the client.                                              *)
OneTab ==
  [tabs |-> {t1}, ops |-> {a, b, c}, claims |-> {c}, requires |-> Pair,
   elsewhere |-> {}, resultsLapse |-> FALSE, maxRetries |-> 1,
   webLocks |-> TRUE, batchAdapter |-> FALSE, directUse |-> FALSE,
   maxFailures |-> 1, maxCrashes |-> 1, maxUserRetries |-> 1, maxHistory |-> 6]

(* Two operations under all bounds at once; with three, two at a time.     *)
TwoOperations ==
  [OneTab EXCEPT !.ops = {a, b}, !.claims = {}, !.requires = (a :> {}) @@ (b :> {a})]

(* Stored results lapse, and another device visits spots, too.             *)
Unsettled ==
  [TwoOperations EXCEPT !.maxFailures = 0, !.elsewhere = {a}, !.resultsLapse = TRUE]

(* Its adapter has only the batch request, and the application calls the   *)
(* queue itself.                                                           *)
Batches == [OneTab EXCEPT !.batchAdapter = TRUE, !.directUse = TRUE, !.maxFailures = 0]

(* One operation, no retry of the sender's.                                *)
OneOperation ==
  [OneTab EXCEPT !.ops = {a}, !.claims = {}, !.requires = (a :> {}), !.maxRetries = 0, !.maxFailures = 0]

TwoTabs ==
  [OneOperation EXCEPT !.tabs = {t1, t2}, !.maxCrashes = 0, !.maxUserRetries = 0, !.maxHistory = 2]

ClientSettings ==
  {[OneTab EXCEPT !.maxUserRetries = 0], [OneTab EXCEPT !.maxFailures = 0],
   [OneTab EXCEPT !.maxCrashes = 0, !.maxRetries = 0], TwoOperations, Unsettled}
BatchSettings == {Batches, TwoTabs}
RetrySettings == {OneOperation}
=============================================================================
