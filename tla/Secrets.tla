------------------------------ MODULE Secrets ------------------------------
(***************************************************************************)
(* The two secrets of a state directory (src/src/main.rs,                  *)
(* load_or_create_key; src/src/config.rs, load_or_create_token): the key   *)
(* that is the machine's identity and the token of the admin UI, made by   *)
(* whichever command starts first.                                         *)
(*                                                                         *)
(* Several processes may start at once (`serve` and `connect` on one       *)
(* machine, `rtun id` beside them) and each may stop between two steps.    *)
(* The Unix build is modelled: there a key file is never opened twice.     *)
(***************************************************************************)
EXTENDS Naturals

CONSTANTS
    Procs,         \* processes; each is started again when it went down
    WithAdmin,     \* those that were given --admin
    MaxFaults      \* bound on the number of stops

ASSUME SecretsAssumption == WithAdmin \subseteq Procs /\ MaxFaults \in Nat

VARIABLES
    keyFile,       \* secret.key
    tokenFile,     \* admin.token
    at,            \* per process, where it is
    key, token,    \* per process, what it runs with, or is about to write
    minted,        \* how many secrets were generated
    faults,        \* how often a process was stopped
    identities,    \* history: the keys that processes ran with
    raced          \* history: processes that read or made the token they have
                   \* while another one made a token

fileVars == <<keyFile, tokenFile>>
procVars == <<at, key, token>>
history == <<identities, raced>>
vars == <<fileVars, procVars, minted, faults, history>>

Missing == [is |-> "missing"]
Empty == [is |-> "empty"]
Holding(secret) == [is |-> "whole", secret |-> secret]

None == 0

Init ==
    /\ keyFile = Missing /\ tokenFile = Missing
    /\ at = [p \in Procs |-> "down"]
    /\ key = [p \in Procs |-> None] /\ token = [p \in Procs |-> None]
    /\ minted = 0 /\ faults = 0
    /\ identities = {} /\ raced = {}

Goes(p, there) == at' = [at EXCEPT ![p] = there]

Start(p) ==
    /\ at[p] = "down"
    /\ Goes(p, "reading_key")
    /\ UNCHANGED <<fileVars, key, token, minted, faults, history>>

Down(p) ==
    /\ Goes(p, "down")
    /\ key' = [key EXCEPT ![p] = None] /\ token' = [token EXCEPT ![p] = None]
    /\ raced' = raced \ {p}

-----------------------------------------------------------------------------
(* load_or_create_key *)

(* The process has its key: bind_endpoint, then start_admin. *)
HasKey(p, k) ==
    /\ Goes(p, IF p \in WithAdmin THEN "reading_token" ELSE "up")
    /\ key' = [key EXCEPT ![p] = k]
    /\ identities' = identities \cup {k}

(* A file that is there and is not a key ends the command. *)
ReadKey(p) ==
    /\ at[p] = "reading_key"
    /\ \/ /\ keyFile.is = "whole"
          /\ HasKey(p, keyFile.secret)
          /\ UNCHANGED <<token, minted, raced>>
       \/ /\ keyFile = Empty
          /\ Down(p)
          /\ UNCHANGED <<minted, identities>>
       \/ /\ keyFile = Missing
          /\ Goes(p, "creating_key")
          /\ minted' = minted + 1
          /\ key' = [key EXCEPT ![p] = minted']
          /\ UNCHANGED <<token, identities, raced>>
    /\ UNCHANGED <<fileVars, faults>>

(* Mutant: a file that is there by now is opened all the same, which is what
   fs::write does in the other builds. *)
CreateKey_Truncates(p) ==
    /\ at[p] = "creating_key"
    /\ keyFile' = Empty
    /\ Goes(p, "writing_key")
    /\ UNCHANGED <<tokenFile, key, token, minted, faults, history>>

(* create_new: if the file is there by now, the command ends with an error. *)
CreateKey(p) ==
    /\ at[p] = "creating_key"
    /\ IF keyFile = Missing
       THEN /\ keyFile' = Empty
            /\ Goes(p, "writing_key")
            /\ UNCHANGED <<key, token, raced>>
       ELSE Down(p) /\ UNCHANGED keyFile
    /\ UNCHANGED <<tokenFile, minted, faults, identities>>

WriteKey(p) ==
    /\ at[p] = "writing_key"
    /\ keyFile' = Holding(key[p])
    /\ HasKey(p, key[p])
    /\ UNCHANGED <<tokenFile, token, minted, faults, raced>>

(* The operator does what the error says: "delete it to regenerate".  Nobody
   is so quick as to delete the file of a process that is about to write it. *)
DeleteKey ==
    /\ keyFile = Empty
    /\ \A p \in Procs : at[p] # "writing_key"
    /\ keyFile' = Missing
    /\ UNCHANGED <<tokenFile, procVars, minted, faults, history>>

-----------------------------------------------------------------------------
(* load_or_create_token *)

MakingToken(p) == at[p] \in {"creating_token", "writing_token"}

Rivals(p) == {q \in Procs \ {p} : MakingToken(q)}

TokenRead(p, Usable) ==
    /\ at[p] = "reading_token"
    /\ IF Usable
       THEN /\ Goes(p, "up")
            /\ token' = [token EXCEPT ![p] = tokenFile.secret]
            /\ UNCHANGED minted
       ELSE /\ Goes(p, "creating_token")
            /\ minted' = minted + 1
            /\ token' = [token EXCEPT ![p] = minted']
    /\ raced' = IF Rivals(p) = {} THEN raced ELSE raced \cup Rivals(p) \cup {p}
    /\ UNCHANGED <<fileVars, key, faults, identities>>

(* Mutant: every start makes a token. *)
ReadToken_Never(p) == TokenRead(p, FALSE)

(* Mutant: an empty file is an error, as it is for the key. *)
ReadToken_Strict(p) == tokenFile # Empty /\ TokenRead(p, tokenFile.is = "whole")

(* Anything but a token that is there and not empty is made anew. *)
ReadToken(p) == TokenRead(p, tokenFile.is = "whole")

CreateToken(p) ==
    /\ at[p] = "creating_token"
    /\ tokenFile' = Empty
    /\ Goes(p, "writing_token")
    /\ UNCHANGED <<keyFile, key, token, minted, faults, history>>

WriteToken(p) ==
    /\ at[p] = "writing_token"
    /\ tokenFile' = Holding(token[p])
    /\ Goes(p, "up")
    /\ UNCHANGED <<keyFile, key, token, minted, faults, history>>

-----------------------------------------------------------------------------
(* A process is stopped, or a write fails and it ends. *)
Stop(p) ==
    /\ at[p] # "down" /\ faults < MaxFaults
    /\ faults' = faults + 1
    /\ Down(p)
    /\ UNCHANGED <<fileVars, minted, identities>>

Runs(p) ==
    \/ Start(p) \/ ReadKey(p) \/ CreateKey(p) \/ WriteKey(p)
    \/ ReadToken(p) \/ CreateToken(p) \/ WriteToken(p)

Next == DeleteKey \/ \E p \in Procs : Runs(p) \/ Stop(p)

Spec == Init /\ [][Next]_vars

(* A process runs and is started again; the operator reads the error. *)
Fairness == WF_vars(DeleteKey) /\ \A p \in Procs : WF_vars(Runs(p))

FairSpec == Spec /\ Fairness

-----------------------------------------------------------------------------
(* Properties *)

Files == {Missing, Empty} \cup {Holding(n) : n \in 1..minted}

(* Types; one process at most has a key to write. *)
TypeOK ==
    /\ minted \in Nat /\ faults \in 0..MaxFaults
    /\ keyFile \in Files /\ tokenFile \in Files
    /\ at \in [Procs -> {"down", "reading_key", "creating_key", "writing_key",
                         "reading_token", "creating_token", "writing_token", "up"}]
    /\ key \in [Procs -> 0..minted] /\ token \in [Procs -> 0..minted]
    /\ identities \subseteq 1..minted
    /\ raced \subseteq Procs
    /\ \A p, q \in Procs : at[p] = "writing_key" /\ at[q] = "writing_key" => p = q

(* load_or_create_key: a machine has one identity for good, whichever commands
   start at once and wherever they stop ("generated once and kept"). *)
OneIdentity == \A k, l \in identities : k = l

(* load_or_create_token: the token in the file is the one that a running process
   accepts, unless it read or made its own while another process made one; it
   does so again once it was restarted and nobody else made one meanwhile. *)
TokenOpensTheUi ==
    \A p \in WithAdmin \ raced : at[p] = "up" => tokenFile = Holding(token[p])

(* "An empty or truncated token file must not be able to brick `serve`": nor
   does anything else for good, a key file that was never written included,
   once that is deleted. *)
EveryProcessComesUp == \A p \in Procs : <>[](at[p] = "up")
=============================================================================
