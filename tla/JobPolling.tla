----------------------------- MODULE JobPolling -----------------------------
(***************************************************************************)
(* pollJobStatus of the web client: it asks for the job again and again    *)
(* until the job has ended, MaxAttempts times at most, and gives up after  *)
(* MaxErrors errors in a row.                                              *)
(***************************************************************************)
EXTENDS PipelineService

CONSTANTS
  MaxAttempts,   (* 60                                                      *)
  MaxErrors      (* 3                                                       *)

ASSUME PollingAssumption ==
  MaxAttempts \in Nat /\ MaxErrors \in Nat \ {0}

VARIABLES
  client,      (* where the caller of pollJobStatus is                      *)
  attempts,    (* i                                                         *)
  misses,      (* consecutiveErrors                                         *)
  answer       (* the job it returned                                       *)

clientVars == <<client, attempts, misses, answer>>

PollingTypeOK ==
  /\ client \in [Jobs -> {"off", "polling", "answered", "thrown"}]
  /\ attempts \in [Jobs -> 0..MaxAttempts]
  /\ misses \in [Jobs -> 0..MaxErrors]
  /\ answer \in [Jobs -> Row]

PollingInit ==
  /\ client = [j \in Jobs |-> "off"]
  /\ attempts = [j \in Jobs |-> 0]
  /\ misses = [j \in Jobs |-> 0]
  /\ answer = [j \in Jobs |-> NoJob]

(* The answer to POST /pipelines/:id/execute has come. *)
BeginPolling(j) ==
  /\ client[j] = "off"
  /\ row[j] # NoJob
  /\ client' = [client EXCEPT ![j] = "polling"]
  /\ UNCHANGED <<attempts, misses, answer>>

Again(j) == client[j] = "polling" /\ attempts[j] < MaxAttempts

(* GetJob: the row, if the pipeline still belongs to the caller *)
Readable(j) == row[j].status \notin {"absent", "DELETED"}

(* Mutant: anything but PENDING is taken for the end.                       *)
PollAnsweredEarly(j) ==
  /\ Again(j)
  /\ Readable(j)
  /\ row[j].status # "PENDING"
  /\ client' = [client EXCEPT ![j] = "answered"]
  /\ misses' = [misses EXCEPT ![j] = 0]
  /\ answer' = [answer EXCEPT ![j] = row[j]]
  /\ UNCHANGED attempts

PollAnswered(j) ==
  /\ Again(j)
  /\ Readable(j)
  /\ row[j].status \in Final
  /\ client' = [client EXCEPT ![j] = "answered"]
  /\ misses' = [misses EXCEPT ![j] = 0]
  /\ answer' = [answer EXCEPT ![j] = row[j]]
  /\ UNCHANGED attempts

PollUnfinished(j) ==
  /\ Again(j)
  /\ Readable(j)
  /\ row[j].status \notin Final
  /\ misses' = [misses EXCEPT ![j] = 0]
  /\ attempts' = [attempts EXCEPT ![j] = @ + 1]
  /\ UNCHANGED <<client, answer>>

(* Mutant: the limit of errors in a row is checked one too late.            *)
PollErrorLate(j) ==
  /\ Again(j)
  /\ Faults \/ ~Readable(j)
  /\ misses' = [misses EXCEPT ![j] = @ + 1]
  /\ IF misses'[j] > MaxErrors
     THEN client' = [client EXCEPT ![j] = "thrown"] /\ UNCHANGED attempts
     ELSE attempts' = [attempts EXCEPT ![j] = @ + 1] /\ UNCHANGED client
  /\ UNCHANGED answer

(* A 404, a 500 or no network *)
PollError(j) ==
  /\ Again(j)
  /\ Faults \/ ~Readable(j)
  /\ misses' = [misses EXCEPT ![j] = @ + 1]
  /\ IF misses'[j] >= MaxErrors
     THEN client' = [client EXCEPT ![j] = "thrown"] /\ UNCHANGED attempts
     ELSE attempts' = [attempts EXCEPT ![j] = @ + 1] /\ UNCHANGED client
  /\ UNCHANGED answer

(* Mutant: a client that has timed out begins again.                        *)
PollTimesOutRestarts(j) ==
  /\ client[j] = "polling"
  /\ attempts[j] = MaxAttempts
  /\ attempts' = [attempts EXCEPT ![j] = 0]
  /\ UNCHANGED <<client, misses, answer>>

(* "Job polling timed out" *)
PollTimesOut(j) ==
  /\ client[j] = "polling"
  /\ attempts[j] = MaxAttempts
  /\ client' = [client EXCEPT ![j] = "thrown"]
  /\ UNCHANGED <<attempts, misses, answer>>
=============================================================================
