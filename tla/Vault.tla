-------------------------------- MODULE Vault --------------------------------
(***************************************************************************)
(* core/vault.py: the encrypted store of the broker's secrets, two files   *)
(* that only open together: the ciphertext, under a key derived from a     *)
(* passphrase and a salt, and the metadata that holds the salt.  rotate    *)
(* replaces both, one after the other, behind a backup of each; the next   *)
(* open rolls an interrupted rotation back.  The operator's commands open  *)
(* the vault, do one thing and exit; a service only opens it (load_vault). *)
(* A write is atomic, so a process is interrupted, by its death or by a    *)
(* write that raises, between two of them.                                 *)
(***************************************************************************)
EXTENDS Integers, Functions, TLC

CONSTANTS
    Passphrases,    \* of the operator
    Names, Values,  \* of the secrets
    Procs,          \* the processes, one command or start at a time
    Operator,       \* the one that changes the vault
    MaxSalt,        \* bound: salts drawn
    MaxInterrupts   \* bound: interruptions

VARIABLES
    enc, meta,              \* vault.enc and vault_meta.json
    encBak, metaBak,        \* their backups
    session,                \* what each process does, and the vault it opened
    expected,               \* what the operator may believe the vault to be
    salts, interrupts

vault == <<enc, meta, encBak, metaBak, session, expected, salts, interrupts>>

NoFile    == [absent |-> TRUE]
NoSecrets == << >>
Closed    == [at |-> "closed", pass |-> NoFile, new |-> NoFile, meta |-> NoFile, secrets |-> NoSecrets]

\* A vault as its operator knows it.
Known(pass, secrets) == [pass |-> pass, secrets |-> secrets]

\* What _derive_key and encrypt make of it, and what decrypt demands.
Token(pass, m, secrets) == [pass |-> pass, salt |-> m.salt, secrets |-> secrets]

VaultInit ==
    /\ enc = NoFile /\ meta = NoFile /\ encBak = NoFile /\ metaBak = NoFile
    /\ session = [p \in Procs |-> Closed]
    /\ expected = {}
    /\ salts = 0 /\ interrupts = 0

Interrupted == encBak # NoFile /\ metaBak # NoFile

\* A bug: the metadata is not backed up.
AfterStepWithoutMeta(at) ==
    CASE at = "backEnc"  -> "rekeyEnc" [] at = "backMeta" -> "rekeyEnc"
      [] at = "rekeyEnc" -> "rekeyMeta" [] at = "rekeyMeta" -> "dropEncBak"

\* The order of the writes of rotate.
AfterStep(at) ==
    CASE at = "backEnc"  -> "backMeta" [] at = "backMeta" -> "rekeyEnc"
      [] at = "rekeyEnc" -> "rekeyMeta" [] at = "rekeyMeta" -> "dropEncBak"

At(p, step) == session[p].at = step
Goto(p, step) == session' = [session EXCEPT ![p].at = step]
Exit(p) == session' = [session EXCEPT ![p] = Closed]

(***************************************************************************)
(* create: an orphan of an interrupted create is removed, a complete pair  *)
(* refuses; when the ciphertext cannot be written the metadata goes too.   *)
(***************************************************************************)
StartCreate(p, pass) ==
    /\ p = Operator /\ At(p, "closed")
    /\ enc = NoFile \/ meta = NoFile
    /\ salts < MaxSalt
    /\ salts' = salts + 1
    /\ enc' = NoFile /\ meta' = NoFile
    /\ session' = [session EXCEPT ![p] = [Closed EXCEPT
                      !.at = "createMeta", !.pass = pass, !.meta = [salt |-> salts']]]
    /\ UNCHANGED <<encBak, metaBak, expected, interrupts>>

CreateMeta(p) ==
    /\ At(p, "createMeta")
    /\ meta' = session[p].meta
    /\ Goto(p, "createEnc")
    /\ UNCHANGED <<enc, encBak, metaBak, expected, salts, interrupts>>

CreateFails(p) ==
    /\ At(p, "createEnc")
    /\ interrupts < MaxInterrupts
    /\ interrupts' = interrupts + 1
    /\ meta' = NoFile
    /\ Exit(p)
    /\ UNCHANGED <<enc, encBak, metaBak, expected, salts>>

(***************************************************************************)
(* open: roll back, then decrypt.                                          *)
(***************************************************************************)
StartOpen(p, pass) ==
    /\ At(p, "closed")
    /\ session' = [session EXCEPT ![p] = [Closed EXCEPT
                      !.at = IF Interrupted THEN "restoreEnc" ELSE "read", !.pass = pass]]
    /\ UNCHANGED <<enc, meta, encBak, metaBak, expected, salts, interrupts>>

\* A backup another process removed meanwhile cannot be read.
RestoreEnc(p) ==
    /\ At(p, "restoreEnc")
    /\ IF encBak = NoFile THEN Exit(p) /\ UNCHANGED enc
       ELSE enc' = encBak /\ Goto(p, "restoreMeta")
    /\ UNCHANGED <<meta, encBak, metaBak, expected, salts, interrupts>>

RestoreMeta(p) ==
    /\ At(p, "restoreMeta")
    /\ IF metaBak = NoFile THEN Exit(p) /\ UNCHANGED meta
       ELSE meta' = metaBak /\ Goto(p, "forgetEncBak")
    /\ UNCHANGED <<enc, encBak, metaBak, expected, salts, interrupts>>

\* Both backups are unlinked the same way, after a rollback and after a rotation.
UnlinkEncBak(p) ==
    /\ session[p].at \in {"forgetEncBak", "dropEncBak"}
    /\ encBak' = NoFile
    /\ Goto(p, IF At(p, "forgetEncBak") THEN "forgetMetaBak" ELSE "dropMetaBak")
    /\ UNCHANGED <<enc, meta, metaBak, expected, salts, interrupts>>

UnlinkMetaBak(p) ==
    /\ session[p].at \in {"forgetMetaBak", "dropMetaBak"}
    /\ metaBak' = NoFile
    /\ IF At(p, "forgetMetaBak") THEN Goto(p, "read") /\ UNCHANGED expected
       ELSE Exit(p) /\ expected' = {Known(session[p].new, session[p].secrets)}
    /\ UNCHANGED <<enc, meta, encBak, salts, interrupts>>

Opens(token, m, pass) ==
    /\ token # NoFile /\ m # NoFile
    /\ token.pass = pass /\ token.salt = m.salt

Read(p) ==
    /\ At(p, "read")
    /\ IF Opens(enc, meta, session[p].pass)
       THEN session' = [session EXCEPT ![p].at = "opened", ![p].meta = meta,
                                       ![p].secrets = enc.secrets]
       ELSE Exit(p)
    /\ UNCHANGED <<enc, meta, encBak, metaBak, expected, salts, interrupts>>

\* get, list, and the service once it has its broker.
Close(p) ==
    /\ At(p, "opened")
    /\ Exit(p)
    /\ UNCHANGED <<enc, meta, encBak, metaBak, expected, salts, interrupts>>

(***************************************************************************)
(* set and delete change the secrets in memory and save them.              *)
(***************************************************************************)
Without(secrets, n) == Restrict(secrets, DOMAIN secrets \ {n})

Change(p, secrets) ==
    /\ p = Operator /\ At(p, "opened")
    /\ session' = [session EXCEPT ![p].at = "save", ![p].secrets = secrets]
    /\ expected' = {Known(session[p].pass, session[p].secrets), Known(session[p].pass, secrets)}
    /\ UNCHANGED <<enc, meta, encBak, metaBak, salts, interrupts>>

SetSecret(p, n, v) == Change(p, (n :> v) @@ session[p].secrets)

Delete(p, n) == n \in DOMAIN session[p].secrets /\ Change(p, Without(session[p].secrets, n))

Save(p) ==
    /\ session[p].at \in {"createEnc", "save"}
    /\ enc' = Token(session[p].pass, session[p].meta, session[p].secrets)
    /\ expected' = {Known(session[p].pass, session[p].secrets)}
    /\ Exit(p)
    /\ UNCHANGED <<meta, encBak, metaBak, salts, interrupts>>

(***************************************************************************)
(* rotate                                                                  *)
(***************************************************************************)
StartRotate(p, new) ==
    /\ p = Operator /\ At(p, "opened")
    /\ salts < MaxSalt
    /\ salts' = salts + 1
    /\ session' = [session EXCEPT ![p].at = "backEnc", ![p].new = new,
                                   ![p].meta = [salt |-> salts']]
    /\ expected' = {Known(session[p].pass, session[p].secrets), Known(new, session[p].secrets)}
    /\ UNCHANGED <<enc, meta, encBak, metaBak, interrupts>>

BackUp(p) ==
    /\ \/ At(p, "backEnc")  /\ encBak' = enc /\ UNCHANGED metaBak
       \/ At(p, "backMeta") /\ metaBak' = meta /\ UNCHANGED encBak
    /\ Goto(p, AfterStep(session[p].at))
    /\ UNCHANGED <<enc, meta, expected, salts, interrupts>>

Rekey(p) ==
    /\ \/ /\ At(p, "rekeyEnc")
          /\ enc' = Token(session[p].new, session[p].meta, session[p].secrets) /\ UNCHANGED meta
       \/ /\ At(p, "rekeyMeta")
          /\ meta' = session[p].meta /\ UNCHANGED enc
    /\ Goto(p, AfterStep(session[p].at))
    /\ UNCHANGED <<encBak, metaBak, expected, salts, interrupts>>

\* The process dies, or a write or an unlink raises and the command exits.
Interrupt(p) ==
    /\ ~At(p, "closed")
    /\ interrupts < MaxInterrupts
    /\ interrupts' = interrupts + 1
    /\ Exit(p)
    /\ UNCHANGED <<enc, meta, encBak, metaBak, expected, salts>>

VaultNext == \E p \in Procs :
    \/ \E pass \in Passphrases : StartCreate(p, pass) \/ StartOpen(p, pass) \/ StartRotate(p, pass)
    \/ CreateMeta(p) \/ CreateFails(p)
    \/ RestoreEnc(p) \/ RestoreMeta(p) \/ UnlinkEncBak(p) \/ UnlinkMetaBak(p)
    \/ Read(p) \/ Close(p)
    \/ \E n \in Names : (\E v \in Values : SetSecret(p, n, v)) \/ Delete(p, n)
    \/ Save(p) \/ BackUp(p) \/ Rekey(p)
    \/ Interrupt(p)

VaultSpec == VaultInit /\ [][VaultNext]_vault

-----------------------------------------------------------------------------
\* Wherever a command was interrupted, the next open yields a vault the operator knows:
\* under the old or the new passphrase, with the secrets before or after the change
\* (vault.py "never able to leave a vault that neither the old nor the new passphrase
\* can open").
VaultOpens ==
    expected # {} /\ (\A p \in Procs : At(p, "closed")) =>
        LET token == IF Interrupted THEN encBak ELSE enc
            m     == IF Interrupted THEN metaBak ELSE meta
        IN  \E known \in expected :
               Opens(token, m, known.pass) /\ token.secrets = known.secrets
=============================================================================
