---------------------------- MODULE PaymentMethods ----------------------------
(***************************************************************************)
(* The payment methods of one user (services/gateway-api, payment-method.  *)
(* service): methods are added, one is made the default, and removed.  A   *)
(* method is named by the call that adds it.  The queries of a call are    *)
(* steps, between which other calls may run.                               *)
(***************************************************************************)
EXTENDS Integers, FiniteSets

CONSTANTS
  Methods,     \* calls of addPaymentMethod
  Setters,     \* calls of setDefaultPaymentMethod
  Removers,    \* calls of removePaymentMethod
  None,        \* no method
  MaxFaults    \* bound of the model: failing database calls

ASSUME MethodsAssumption ==
  /\ None \notin Methods
  /\ MaxFaults \in Nat

VARIABLES
  stored,     \* the rows of payment_methods
  isDefault,  \* the rows with is_default
  adder,      \* where addPaymentMethod stands, and whether it saw no method
  setter,     \* where setDefaultPaymentMethod stands, and its method
  remover,    \* where removePaymentMethod stands, and its method
  overlaps, \* history: a call started while another was in progress
  forgone,    \* history: the default was removed, or cleared without another
  faults      \* history: failing database calls

methodVars ==
  <<stored, isDefault, adder, setter, remover, overlaps, forgone, faults>>

MethodsInit ==
  /\ stored = {} /\ isDefault = {}
  /\ adder   = [m \in Methods |-> [pc |-> "idle", first |-> FALSE]]
  /\ setter  = [s \in Setters |-> [pc |-> "idle", method |-> None]]
  /\ remover = [r \in Removers |-> [pc |-> "idle", method |-> None]]
  /\ overlaps = FALSE /\ forgone = FALSE
  /\ faults  = 0

Resting(handler) == handler.pc \in {"idle", "ended"}
Quiet == /\ \A m \in Methods : Resting(adder[m])
         /\ \A s \in Setters : Resting(setter[s])
         /\ \A r \in Removers : Resting(remover[r])
Starts == overlaps' = (overlaps \/ ~Quiet)

-----------------------------------------------------------------------------
(* addPaymentMethod                                                        *)

\* Mutant: the first method is not counted as the first.
AddCountOffByOne(m) ==
  /\ adder[m].pc = "idle" /\ Starts
  /\ adder' = [adder EXCEPT ![m] = [pc |-> "saving",
                                    first |-> Cardinality(stored) = 1]]
  /\ UNCHANGED <<stored, isDefault, setter, remover, forgone, faults>>

\* The methods of the user are counted.
AddCount(m) ==
  /\ adder[m].pc = "idle" /\ Starts
  /\ adder' = [adder EXCEPT ![m] = [pc |-> "saving", first |-> stored = {}]]
  /\ UNCHANGED <<stored, isDefault, setter, remover, forgone, faults>>

\* The method is inserted, as the default if there was none to count.
AddSave(m) ==
  /\ adder[m].pc = "saving"
  /\ adder' = [adder EXCEPT ![m].pc = "ended"]
  /\ stored' = stored \cup {m}
  /\ isDefault' = IF adder[m].first THEN isDefault \cup {m} ELSE isDefault
  /\ forgone' = (forgone /\ ~adder[m].first)
  /\ UNCHANGED <<setter, remover, overlaps, faults>>

-----------------------------------------------------------------------------
(* setDefaultPaymentMethod                                                 *)

\* Mutant: the previous default is not cleared.
SetClearNothing(s, m) ==
  /\ setter[s].pc = "idle" /\ Starts
  /\ setter' = [setter EXCEPT ![s] = [pc |-> "setting", method |-> m]]
  /\ UNCHANGED <<stored, isDefault, adder, remover, forgone, faults>>

\* The default of the user is cleared.
SetClear(s, m) ==
  /\ setter[s].pc = "idle" /\ Starts
  /\ setter' = [setter EXCEPT ![s] = [pc |-> "setting", method |-> m]]
  /\ isDefault' = {}
  /\ UNCHANGED <<stored, adder, remover, forgone, faults>>

\* Mutant: the method is saved as an object, which inserts it if it is gone.
SetMarkSaves(s) ==
  LET m == setter[s].method IN
  /\ setter[s].pc = "setting"
  /\ setter' = [setter EXCEPT ![s].pc = "ended"]
  /\ stored' = stored \cup {m}
  /\ isDefault' = isDefault \cup {m}
  /\ forgone' = FALSE
  /\ UNCHANGED <<adder, remover, overlaps, faults>>

\* The method is marked, if it exists; else the call ends with NotFound.
SetMark(s) ==
  LET m == setter[s].method IN
  /\ setter[s].pc = "setting"
  /\ setter' = [setter EXCEPT ![s].pc = "ended"]
  /\ isDefault' = isDefault \cup ({m} \cap stored)
  /\ forgone' = (m \notin stored)
  /\ UNCHANGED <<stored, adder, remover, overlaps, faults>>

-----------------------------------------------------------------------------
(* removePaymentMethod                                                     *)

Remover(r, from, to) ==
  /\ remover[r].pc = from
  /\ remover' = [remover EXCEPT ![r].pc = to]
  /\ UNCHANGED <<adder, setter, overlaps, faults>>

RemoveFind(r, m) ==
  /\ remover[r].pc = "idle" /\ Starts
  /\ remover' = [remover EXCEPT ![r] =
       [pc |-> IF m \notin stored THEN "ended"
               ELSE IF m \in isDefault THEN "replacing" ELSE "removing",
        method |-> m]]
  /\ UNCHANGED <<stored, isDefault, adder, setter, forgone, faults>>

\* Another method is looked for, under the very id that is being removed.
RemoveReplace(r) ==
  /\ Remover(r, "replacing",
       IF remover[r].method \in stored THEN "marking" ELSE "removing")
  /\ UNCHANGED <<stored, isDefault, forgone>>

RemoveMark(r) ==
  /\ Remover(r, "marking", "removing")
  /\ isDefault' = isDefault \cup ({remover[r].method} \cap stored)
  /\ UNCHANGED <<stored, forgone>>

\* Mutant: the row is deleted softly and keeps its mark.
RemoveDeleteSoftly(r) ==
  /\ Remover(r, "removing", "ended")
  /\ stored' = stored \ {remover[r].method}
  /\ UNCHANGED <<isDefault, forgone>>

RemoveDelete(r) ==
  LET m == remover[r].method IN
  /\ Remover(r, "removing", "ended")
  /\ stored' = stored \ {m}
  /\ isDefault' = isDefault \ {m}
  /\ forgone' = (forgone \/ m \in isDefault)

\* A failing database call ends the call with an error.
MethodsError ==
  /\ \/ \E m \in Methods :
          /\ adder[m].pc = "saving"
          /\ adder' = [adder EXCEPT ![m].pc = "ended"]
          /\ UNCHANGED <<setter, remover, forgone>>
     \/ \E s \in Setters :
          /\ setter[s].pc = "setting"
          /\ setter' = [setter EXCEPT ![s].pc = "ended"]
          /\ forgone' = TRUE
          /\ UNCHANGED <<adder, remover>>
     \/ \E r \in Removers :
          /\ ~Resting(remover[r])
          /\ remover' = [remover EXCEPT ![r].pc = "ended"]
          /\ UNCHANGED <<adder, setter, forgone>>
  /\ faults < MaxFaults /\ faults' = faults + 1
  /\ UNCHANGED <<stored, isDefault, overlaps>>

MethodsNext ==
  \/ \E m \in Methods : AddCount(m) \/ AddSave(m)
  \/ \E s \in Setters, m \in Methods : SetClear(s, m)
  \/ \E s \in Setters : SetMark(s)
  \/ \E r \in Removers, m \in Methods : RemoveFind(r, m)
  \/ \E r \in Removers : RemoveReplace(r) \/ RemoveMark(r) \/ RemoveDelete(r)
  \/ MethodsError

MethodsSpec == MethodsInit /\ [][MethodsNext]_methodVars
-----------------------------------------------------------------------------
(* Properties                                                              *)

\* Rows and handlers have their types; only existing methods are default.
MethodsTypeOK ==
  /\ stored \subseteq Methods
  /\ isDefault \subseteq stored
  /\ adder \in [Methods -> [pc : {"idle", "saving", "ended"},
                            first : BOOLEAN]]
  /\ setter \in [Setters -> [pc : {"idle", "setting", "ended"},
                             method : Methods \cup {None}]]
  /\ remover \in [Removers ->
       [pc : {"idle", "replacing", "marking", "removing", "ended"},
        method : Methods \cup {None}]]
  /\ overlaps \in BOOLEAN /\ forgone \in BOOLEAN
  /\ faults \in Nat

\* As long as no two calls have overlapped, no sequence of them, failing ones
\* included, has given the user two default methods.
OneDefault == ~overlaps => \A m, n \in isDefault : m = n

\* Once the calls have ended, overlapping or not, a user with methods has a
\* default one, unless it was removed or a change of default failed halfway.
UserHasDefault == Quiet /\ ~forgone /\ stored # {} => isDefault # {}

\* The default of a user is sound: rows have their types, and a user with
\* methods has one default, as far as calls that do not overlap can keep it so.
DefaultIsSound == MethodsTypeOK /\ OneDefault /\ UserHasDefault

\* A method that was removed does not come back, whatever calls were at work
\* on it.
RemovedMethodsStay ==
  [][\A m \in Methods :
       adder[m].pc = "ended" /\ m \notin stored => m \notin stored']_methodVars
=============================================================================
