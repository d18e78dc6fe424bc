-------------------------- MODULE MCTriggerScripts --------------------------
(* Instances of TriggerScripts for TLC: every combination of small times,  *)
(* those that last long enough and those that do not.                      *)
EXTENDS TriggerScripts

SmallSettings ==
    [strategy : {"listen"}, window : 1 .. 2, interval : 1 .. 2, restart : 0 .. 1,
     duration : {3, 5, 6, 7}, count : {1}, every : {1}, jitter : {0}]
    \cup
    [strategy : {"ble"}, window : 2 .. 3, interval : {1, 3, 5}, restart : 0 .. 1,
     duration : {3, 5, 6}, count : {1}, every : 1 .. 2, jitter : 0 .. 1]
    \cup
    [strategy : {"espnow"}, window : 2 .. 3, interval : 1 .. 2, restart : 0 .. 1,
     duration : {1}, count : 2 .. 5, every : 1 .. 2, jitter : {0}]
    \cup
    [strategy : {"dtim"}, window : {1}, interval : {1}, restart : {0},
     duration : {1}, count : 1 .. 2, every : 1 .. 2, jitter : {0}]
=============================================================================
