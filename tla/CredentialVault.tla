----------------------------- MODULE CredentialVault -----------------------------
(* ProviderCredentialVault: provider-credentials.json, read whole and written  *)
(* whole by one operation at a time, through a temporary file and a rename.    *)
(* What Providers takes as one step of the vault is here its steps, with the   *)
(* crash, the refusals of the key store and the damage of the file.            *)
EXTENDS Naturals, Sequences, FiniteSets

CONSTANTS References,   \* the references createReference draws
          Secrets,      \* the ciphertexts of the secrets
          MaxCalls,     \* bound: calls of the vault
          MaxVaultFaults     \* bound: damages of the file and crashes

VARIABLES credentials,  \* the file: its entries, or none or damaged
          temporaries,  \* temporary files in its directory
          calls,        \* the calls in order, each where it is
          called,       \* calls so far
          vaultFaults,  \* damages and crashes so far
          promised      \* history: the entries the answered calls left

vaultVars == <<credentials, temporaries, calls, called, vaultFaults, promised>>

Entries == UNION {[S -> Secrets] : S \in SUBSET References}
NoEntries == [r \in {} |-> CHOOSE s \in Secrets : TRUE]
StoreFile(kind, entries) == [kind |-> kind, entries |-> entries]
Missing == StoreFile("missing", NoEntries)
Damaged == StoreFile("damaged", NoEntries)

VaultInit ==
    /\ \/ credentials = Missing /\ promised = NoEntries
       \/ credentials = Damaged /\ promised \in Entries
    /\ temporaries = 0 /\ calls = <<>> /\ called = 0 /\ vaultFaults = 0

-----------------------------------------------------------------------------
(* What a call does to the entries: refused, or their new value. *)
Refused(call, entries) ==
    \/ call.op = "create" /\ call.reference \in DOMAIN entries
    \/ call.op = "replace" /\ call.reference \notin DOMAIN entries

Kept(entries, S) == [r \in DOMAIN entries \cap S |-> entries[r]]
Stored(entries, reference, secret) ==
    [r \in DOMAIN entries \cup {reference} |->
        IF r = reference THEN secret ELSE entries[r]]

Effect(call, entries) ==
    IF Refused(call, entries) THEN entries
    ELSE IF call.op \in {"create", "replace"}
         THEN Stored(entries, call.reference, call.secret)
    ELSE IF call.op = "delete" THEN Kept(entries, References \ {call.reference})
    ELSE IF call.op = "prune" THEN Kept(entries, call.allowed)
    ELSE entries

NeedsKeyStore(call) == call.op \in {"create", "replace", "resolve", "has"}
Writes(call, entries) ==
    ~Refused(call, entries) /\ (call.op = "replace" \/ Effect(call, entries) # entries)

-----------------------------------------------------------------------------
Call(op, reference, secret, allowed) ==
    /\ called < MaxCalls
    /\ called' = called + 1
    /\ calls' = Append(calls, [op |-> op, reference |-> reference, secret |-> secret,
                               allowed |-> allowed, at |-> "waiting",
                               entries |-> NoEntries])
    /\ UNCHANGED <<credentials, temporaries, vaultFaults, promised>>

CallSome ==
    \E r \in References, s \in Secrets :
        \/ \E op \in {"create", "replace"} : Call(op, r, s, {})
        \/ /\ s = CHOOSE t \in Secrets : TRUE
           /\ \/ \E op \in {"resolve", "has", "delete"} : Call(op, r, s, {})
              \/ Call("prune", r, s, {r})

(* exclusive: a call runs when those before it have ended. *)

Runs(i) == i = 1

At(i, place) == calls' = [calls EXCEPT ![i].at = place]
Without(i) == [k \in 1 .. Len(calls) - 1 |-> calls[IF k < i THEN k ELSE k + 1]]
Answered(i) == calls' = Without(i)

(* The key store may refuse, or the reference or the secret be invalid. *)
RefusedAtOnce(i) ==
    /\ calls[i].at = "waiting" /\ NeedsKeyStore(calls[i])
    /\ Answered(i)
    /\ UNCHANGED <<credentials, temporaries, promised>>

(* readStore: no file is an empty store, anything else but a whole file that  *)
(* is still the one that was opened is an error.                              *)

Readable(file) == file.kind # "damaged"

ReadStore(i) ==
    /\ calls[i].at = "waiting"
    /\ \/ /\ Readable(credentials)
          /\ LET entries == credentials.entries IN
             calls' = [calls EXCEPT
                 ![i].entries = IF Writes(calls[i], entries)
                                THEN Effect(calls[i], entries) ELSE entries,
                 ![i].at = IF Writes(calls[i], entries) THEN "opening" ELSE "read"]
       \/ Answered(i)
    /\ UNCHANGED <<credentials, temporaries, promised>>

(* The answer of a call that writes nothing; decrypting may fail. *)
Reply(i) ==
    /\ calls[i].at = "read"
    /\ Answered(i)
    /\ UNCHANGED <<credentials, temporaries, promised>>

(* writeStore: the encryption may fail before it, each of its steps in it. *)
OpenTemporary(i) ==
    /\ calls[i].at = "opening"
    /\ \/ temporaries' = temporaries + 1 /\ At(i, "writing")
       \/ UNCHANGED temporaries /\ Answered(i)
    /\ UNCHANGED <<credentials, promised>>

RenameTemporary(i) ==
    /\ calls[i].at = "writing"
    /\ credentials' = StoreFile("store", calls[i].entries)
    /\ temporaries' = temporaries - 1
    /\ At(i, "renamed")
    /\ UNCHANGED promised

(* A failed step removes the temporary file, unless that fails too. *)
WriteFails(i) ==
    /\ calls[i].at = "writing"
    /\ temporaries' \in {temporaries, temporaries - 1}
    /\ Answered(i)
    /\ UNCHANGED <<credentials, promised>>

Acknowledge(i) ==
    /\ calls[i].at = "renamed"
    /\ promised' = Effect(calls[i], promised)
    /\ Answered(i)
    /\ UNCHANGED <<credentials, temporaries>>

VaultStep ==
    /\ \E i \in DOMAIN calls :
        /\ Runs(i)
        /\ \/ RefusedAtOnce(i) \/ ReadStore(i) \/ Reply(i) \/ OpenTemporary(i)
           \/ RenameTemporary(i) \/ WriteFails(i) \/ Acknowledge(i)
    /\ UNCHANGED <<called, vaultFaults>>

-----------------------------------------------------------------------------
(* The process ends: the calls are lost, the files stay. *)
VaultCrash ==
    /\ vaultFaults < MaxVaultFaults
    /\ vaultFaults' = vaultFaults + 1
    /\ calls' = <<>>
    /\ promised' = IF Readable(credentials) THEN credentials.entries ELSE promised
    /\ UNCHANGED <<credentials, temporaries, called>>

(* Something else damages the file, wherever the call under way is: after its  *)
(* readStore it goes on with what it has read, and its rename replaces the     *)
(* damaged file.                                                               *)
Damage ==
    /\ vaultFaults < MaxVaultFaults /\ credentials.kind = "store"
    /\ vaultFaults' = vaultFaults + 1
    /\ credentials' = Damaged
    /\ UNCHANGED <<temporaries, calls, called, promised>>

VaultNext == CallSome \/ VaultStep \/ VaultCrash \/ Damage

(* The calls, in whatever order they come, and what befalls the file. *)
VaultSpec == VaultInit /\ [][VaultNext]_vaultVars

-----------------------------------------------------------------------------
VaultTypeOK ==
    /\ credentials.kind \in {"missing", "damaged", "store"}
    /\ credentials.entries \in Entries /\ promised \in Entries
    /\ temporaries \in 0 .. MaxCalls /\ called \in 0 .. MaxCalls
    /\ vaultFaults \in 0 .. MaxVaultFaults

(* The file has the entries the answered calls left, each applied to what the  *)
(* one before it left, or those of the call that is about to be answered,      *)
(* unless it is damaged; and a call that only reads saw them. Calls made at    *)
(* once lose none of their entries, whatever fails and wherever the process    *)
(* ends.                                                                       *)
CallsTakeTurns ==
    /\ \/ ~Readable(credentials)
       \/ credentials.entries = promised
       \/ \E i \in DOMAIN calls : /\ calls[i].at = "renamed"
                                  /\ credentials.entries = Effect(calls[i], promised)
    /\ \A i \in DOMAIN calls : calls[i].at = "read" => calls[i].entries = promised

(* A damaged file is never taken for an empty store: it stays as it is, or the *)
(* call that had read it whole before the damage writes over it, and with it   *)
(* every entry the answered calls left is back.                                *)
DamageIsKept ==
    credentials = Damaged =>
        \/ credentials' = Damaged
        \/ \E i \in DOMAIN calls :
              calls[i].at = "writing"
              /\ credentials' = StoreFile("store", Effect(calls[i], promised))
=============================================================================
