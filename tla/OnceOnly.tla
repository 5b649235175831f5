------------------------------ MODULE OnceOnly ------------------------------
(***************************************************************************)
(* What an executor with idempotency keys promises (executor.ts:10, :15):  *)
(* an intent has at most one try outstanding, is tried again only after    *)
(* the last try came to nothing, and is never tried again once executed.   *)
(***************************************************************************)
CONSTANTS Intent, Try

VARIABLES open,      (* the tries of each intent that may still execute    *)
          executed   (* the tries of each intent that did                  *)

Init == /\ open     = [i \in Intent |-> {}]
        /\ executed = [i \in Intent |-> {}]

Send(i) == /\ open[i] = {} /\ executed[i] = {}
           /\ \E t \in Try : open' = [open EXCEPT ![i] = {t}]
           /\ UNCHANGED executed

Void(i) == /\ open' = [open EXCEPT ![i] = {}]
           /\ UNCHANGED executed

Execute(i) == /\ open[i] # {}
              /\ open' = [open EXCEPT ![i] = {}]
              /\ executed' = [executed EXCEPT ![i] = open[i]]

Next == \E i \in Intent : Send(i) \/ Void(i) \/ Execute(i)

Spec == Init /\ [][Next]_<<open, executed>>
============================================================================
