----------------------------- MODULE Registration -----------------------------
(***************************************************************************)
(* POST /register of the BACKEND service: the validators and the user name *)
(* check of registration.controller.ts, the insert of                      *)
(* registration.service.ts, and the sending of the activation code.        *)
(*                                                                         *)
(* A handler waits for bcrypt.hash between its user name check and its     *)
(* insert, and for Redis between its insert and its answer; the process    *)
(* may be killed in both places.  A user row is named by the handler that  *)
(* inserted it.  OtpIssuance models the sending in full; here it succeeds, *)
(* fails, or is cut off, and verification activates the account of a       *)
(* client that was told its user id.                                       *)
(***************************************************************************)
EXTENDS Naturals, FiniteSets

CONSTANTS
  Registrations, (* POST /register requests                                *)
  Names,         (* user names as submitted                                *)
  Mails,         (* e-mail addresses as submitted                          *)
  Fold,          (* the user name, trimmed and in lower case               *)
  MaxFaults      (* bound on Redis failures and crashes                    *)

ASSUME RegistrationAssumption ==
  /\ Fold \in [Names -> Names]
  /\ \A n \in Names : Fold[Fold[n]] = Fold[n]
  /\ MaxFaults \in Nat

VARIABLES
  user,          (* users rows: status, "absent" before the insert         *)
  reg,           (* handlers                                               *)
  faults

vars == <<user, reg, faults>>

Waiting == {"hashing", "sending"}
RegEnd == {"invalid", "taken", "created", "failed", "aborted"}

Init ==
  /\ user = [r \in Registrations |-> "absent"]
  /\ \E name \in [Registrations -> Names], mail \in [Registrations -> Mails],
        valid \in [Registrations -> BOOLEAN] :
       reg = [r \in Registrations |->
                [pc |-> "idle", name |-> name[r], mail |-> mail[r], valid |-> valid[r]]]
  /\ faults = 0

-----------------------------------------------------------------------------
(* Deletion gives the row another name and address: both are free again.   *)
Rows == {r \in Registrations : user[r] \notin {"absent", "deleted"}}

(* findByNormalisedUsername, and the index on username_normalised.         *)
NameTaken(n) == \E r \in Rows : Fold[reg[r].name] = Fold[n]

(* The index on email, which compares the address as submitted.            *)
MailTaken(m) == \E r \in Rows : reg[r].mail = m

Answer(r, pc) == reg' = [reg EXCEPT ![r].pc = pc]

(* Stages 1-3: mandatory fields, address format, password policy.          *)
Invalid(r) ==
  /\ reg[r].pc = "idle"
  /\ ~reg[r].valid
  /\ Answer(r, "invalid")
  /\ UNCHANGED <<user, faults>>

(* Stage 4: the user name is looked up.                                    *)
NameCheckFails(r) ==
  /\ reg[r].pc = "idle"
  /\ reg[r].valid
  /\ NameTaken(reg[r].name)
  /\ Answer(r, "taken")
  /\ UNCHANGED <<user, faults>>

(* Stage 5: bcrypt.hash starts.                                            *)
Hash(r) ==
  /\ reg[r].pc = "idle"
  /\ reg[r].valid
  /\ ~NameTaken(reg[r].name)
  /\ Answer(r, "hashing")
  /\ UNCHANGED <<user, faults>>

(* The row is inserted; sendOtp sends its first Redis command.             *)
Insert(r) ==
  /\ reg[r].pc = "hashing"
  /\ ~NameTaken(reg[r].name) /\ ~MailTaken(reg[r].mail)
  /\ user' = [user EXCEPT ![r] = "pending"]
  /\ Answer(r, "sending")
  /\ UNCHANGED faults

(* Mutant: every violation of a unique index is taken for the user name's. *)
InsertConflictAny(r) ==
  /\ reg[r].pc = "hashing"
  /\ NameTaken(reg[r].name) \/ MailTaken(reg[r].mail)
  /\ Answer(r, "taken")
  /\ UNCHANGED <<user, faults>>

(* A unique index refuses the row.  The error names one index: that of the *)
(* user name is answered as a conflict, that of the address as a failure;  *)
(* if both are violated, either may be named.                              *)
InsertConflict(r) ==
  /\ reg[r].pc = "hashing"
  /\ \/ NameTaken(reg[r].name) /\ Answer(r, "taken")
     \/ MailTaken(reg[r].mail) /\ Answer(r, "failed")
  /\ UNCHANGED <<user, faults>>

(* Mutant: a mail that is not delivered fails the request.                 *)
CreatedIfDelivered(r) ==
  /\ reg[r].pc = "sending"
  /\ Answer(r, "created") \/ Answer(r, "failed")
  /\ UNCHANGED <<user, faults>>

(* sendOtp is over, the mail delivered or not: 201 with the user id.       *)
Created(r) ==
  /\ reg[r].pc = "sending"
  /\ Answer(r, "created")
  /\ UNCHANGED <<user, faults>>

(* A Redis command of sendOtp is rejected: 500, and the row stays.         *)
SendThrows(r) ==
  /\ reg[r].pc = "sending"
  /\ faults < MaxFaults
  /\ faults' = faults + 1
  /\ Answer(r, "failed")
  /\ UNCHANGED user

(* The process is killed.                                                  *)
Crash ==
  /\ \E r \in Registrations : reg[r].pc \in Waiting
  /\ faults < MaxFaults
  /\ faults' = faults + 1
  /\ reg' = [r \in Registrations |-> IF reg[r].pc \in Waiting
                                     THEN [reg[r] EXCEPT !.pc = "aborted"] ELSE reg[r]]
  /\ UNCHANGED user

(* verifyOtp: the client that was told the user id enters its code.        *)
Activate(r) ==
  /\ reg[r].pc = "created"
  /\ user[r] = "pending"
  /\ user' = [user EXCEPT ![r] = "active"]
  /\ UNCHANGED <<reg, faults>>

(* confirmDeletion.                                                        *)
DeleteAccount(r) ==
  /\ user[r] = "active"
  /\ user' = [user EXCEPT ![r] = "deleted"]
  /\ UNCHANGED <<reg, faults>>

RegisterStep(r) ==
  \/ Invalid(r) \/ NameCheckFails(r) \/ Hash(r)
  \/ Insert(r) \/ InsertConflict(r) \/ Created(r) \/ SendThrows(r)

Next ==
  \/ \E r \in Registrations : RegisterStep(r) \/ Activate(r) \/ DeleteAccount(r)
  \/ Crash

Spec == Init /\ [][Next]_vars

-----------------------------------------------------------------------------
(* Properties.                                                             *)

(* Every variable has its shape, and a row exists only once its handler is *)
(* past the hash.                                                          *)
TypeOK ==
  /\ user \in [Registrations -> {"absent", "pending", "active", "deleted"}]
  /\ reg \in [Registrations -> [pc : {"idle"} \cup Waiting \cup RegEnd, name : Names,
                                mail : Mails, valid : BOOLEAN]]
  /\ \A r \in Registrations :
       /\ reg[r].pc \in {"idle", "hashing", "invalid", "taken"} => user[r] = "absent"
       /\ reg[r].pc \in {"sending", "created"} => user[r] # "absent"
  /\ faults \in 0 .. MaxFaults

(* No two accounts have the same user name, in any spelling, or the same   *)
(* address, however long the hashing between check and insert takes.       *)
OneAccountPerNameAndMail ==
  \A r, s \in Rows : r # s => /\ Fold[reg[r].name] # Fold[reg[s].name]
                              /\ reg[r].mail # reg[s].mail

(* A request that is refused was beaten to its user name, and one that     *)
(* fails without having inserted its row to its address, by another that   *)
(* did insert: requests racing for a name or an address never all lose,    *)
(* and the answer names what was lost.                                     *)
LoserHasWinner ==
  \A r \in Registrations :
    /\ reg[r].pc = "taken" =>
         \E s \in Registrations \ {r} : /\ user[s] # "absent"
                                        /\ Fold[reg[s].name] = Fold[reg[r].name]
    /\ reg[r].pc = "failed" /\ user[r] = "absent" =>
         \E s \in Registrations \ {r} : user[s] # "absent" /\ reg[s].mail = reg[r].mail

(* Nobody can activate a pending account unless its client was told the    *)
(* user id, which only a 201 does: without a fault, every pending account  *)
(* has such a client, or will have.                                        *)
StrandedOnlyByFault ==
  \A r \in Registrations :
    (user[r] = "pending" /\ reg[r].pc \notin {"sending", "created"}) => faults > 0

=============================================================================
