---------------------------- MODULE RepoSecrets ----------------------------
(***************************************************************************)
(* The build secrets of a repository: rows (repo, key, value) an operator  *)
(* edits as one text, and every JOB_ASSIGN carries to the .env of its      *)
(* build.  A POST of the text is one List and then one statement per key   *)
(* that differs, in no transaction; other POSTs and the dispatcher come in *)
(* between, and an error (or the end of the hub) may stop it anywhere.     *)
(*                                                                         *)
(* Names reach the store in any case and are lower-cased there; a text is  *)
(* what it parses to, so a key it does not have is NULL.                   *)
(***************************************************************************)
EXTENDS Naturals, FiniteSets

CONSTANTS Name,      \* spellings of repo_full_name
          normRepo,  \* the lower-case spelling of each
          Key,       \* keys, in their order as strings
          Value, Form, Build,
          NULL,
          MaxSaves,  \* bound on the POSTs
          MaxJobs    \* bound on the JOB_ASSIGNs

ASSUME SecretsAssumption ==
    /\ normRepo \in [Name -> Name] /\ \A n \in Name : normRepo[normRepo[n]] = normRepo[n]
    /\ Key \subseteq Nat /\ NULL \notin Value
    /\ MaxSaves \in Nat /\ MaxJobs \in Nat

VARIABLES secrets,   \* repo_secrets: the text of each repo
          form,      \* POSTs at work
          build,     \* JOB_ASSIGNs and what became of them
          before,    \* history: the rows of a repo when no POST was at work on it
          posts,     \* history: texts of the POSTs at work on it since
          alone,     \* history: POSTs no other of their repo has overlapped or followed
          spent

vars == <<secrets, form, build, before, posts, alone, spent>>

Texts == [Key -> Value \cup {NULL}]
Empty == [k \in Key |-> NULL]

\* upserts and deletes are the statements a POST has still to make.
Posting == [pc : {"apply", "saved", "failed"}, repo : Name, text : Texts,
            upserts : SUBSET Key, deletes : SUBSET Key]
NoPost == [pc |-> "none"]

\* env is the BuildEnv (Empty is none), dotenv what the build finds as .env
\* (Empty is the file of the commit, if it has one); could is a history of the
\* texts that were right when env was read, failed whether List has failed.
Job == [pc : {"sent", "built"}, env : Texts, dotenv : Texts, could : SUBSET Texts, failed : BOOLEAN]
NoBuild == [pc |-> "none"]

At(f, pc) == form[f].pc = pc
Applying(r) == {f \in Form : At(f, "apply") /\ form[f].repo = r}
Spend(what, max) == spent[what] < max /\ spent' = [spent EXCEPT ![what] = @ + 1]

Init == /\ secrets = [n \in Name |-> Empty] /\ before = secrets
        /\ form = [f \in Form |-> NoPost] /\ build = [b \in Build |-> NoBuild]
        /\ posts = [n \in Name |-> {}] /\ alone = {}
        /\ spent = [saves |-> 0, jobs |-> 0]

-----------------------------------------------------------------------------
(* RepoSecretStore. *)

\* Mutant: the name is taken as it comes.
ListAsSpelt(n) == secrets[n]
List(n) == secrets[normRepo[n]]

Upsert(n, k, v) == secrets' = [secrets EXCEPT ![normRepo[n]][k] = v]
\* Mutant: the row stays, without its value.
DeleteBlanking(n, k) == secrets' = [secrets EXCEPT ![normRepo[n]][k] = ""]
Delete(n, k) == secrets' = [secrets EXCEPT ![normRepo[n]][k] = NULL]

-----------------------------------------------------------------------------
(* repoSecretsPost and applySecretDiff. *)

Begun(f, r, text, upserts, deletes) ==
    /\ form' = [form EXCEPT ![f] = [pc |-> "apply", repo |-> r, text |-> text,
                                    upserts |-> upserts, deletes |-> deletes]]
    /\ posts' = [posts EXCEPT ![r] = @ \cup {text}]
    /\ alone' = {g \in alone : form[g].repo # r} \cup (IF Applying(r) = {} THEN {f} ELSE {})
    /\ UNCHANGED <<build, before>>

\* Mutants: all rows go before the new ones come; keys left out are kept.
PostReplacing(f, n, text) ==
    /\ At(f, "none") /\ Spend("saves", MaxSaves)
    /\ secrets' = [secrets EXCEPT ![normRepo[n]] = Empty]
    /\ Begun(f, normRepo[n], text, {k \in Key : text[k] # NULL}, {})
PostMerging(f, n, text) ==
    /\ At(f, "none") /\ Spend("saves", MaxSaves)
    /\ Begun(f, normRepo[n], text,
             {k \in Key : text[k] # NULL /\ text[k] # List(normRepo[n])[k]}, {})
    /\ UNCHANGED secrets

Post(f, n, text) ==
    /\ At(f, "none") /\ Spend("saves", MaxSaves)
    /\ LET r == normRepo[n]  current == List(r) IN
       Begun(f, r, text, {k \in Key : text[k] # NULL /\ text[k] # current[k]},
                         {k \in Key : text[k] = NULL /\ current[k] # NULL})
    /\ UNCHANGED secrets

\* In the order of the keys.
UpsertNext(f, k) ==
    /\ At(f, "apply") /\ k \in form[f].upserts /\ \A l \in form[f].upserts : k <= l
    /\ Upsert(form[f].repo, k, form[f].text[k])
    /\ form' = [form EXCEPT ![f].upserts = @ \ {k}]
    /\ UNCHANGED <<build, before, posts, alone, spent>>

\* In the order of a Go map: any.
DeleteNext(f, k) ==
    /\ At(f, "apply") /\ form[f].upserts = {} /\ k \in form[f].deletes
    /\ Delete(form[f].repo, k)
    /\ form' = [form EXCEPT ![f].deletes = @ \ {k}]
    /\ UNCHANGED <<build, before, posts, alone, spent>>

\* The last POST at work on a repo leaves what the next ones start from.
Ended(f, pc) ==
    LET r == form[f].repo  last == Applying(r) = {f} IN
    /\ form' = [form EXCEPT ![f].pc = pc]
    /\ before' = [before EXCEPT ![r] = IF last THEN secrets[r] ELSE @]
    /\ posts' = [posts EXCEPT ![r] = IF last THEN {} ELSE @]
    /\ UNCHANGED <<secrets, build, spent>>

\* 303 ?msg=saved
Saved(f) == /\ At(f, "apply") /\ form[f].upserts = {} /\ form[f].deletes = {}
            /\ Ended(f, "saved") /\ UNCHANGED alone

\* 500 "failed to save secrets", or no answer at all.
Fails(f) == At(f, "apply") /\ Ended(f, "failed") /\ alone' = alone \ {f}

Answered(f) == /\ form[f].pc \in {"saved", "failed"}
               /\ form' = [form EXCEPT ![f] = NoPost] /\ alone' = alone \ {f}
               /\ UNCHANGED <<secrets, build, before, posts, spent>>

-----------------------------------------------------------------------------
(* The dispatcher and the agent. *)

\* hydrateBuildEnv: one List, and no secrets when it fails.
Hydrate(b, n, failed) ==
    /\ build[b].pc = "none" /\ Spend("jobs", MaxJobs)
    /\ build' = [build EXCEPT ![b] =
           [pc |-> "sent", env |-> IF failed THEN Empty ELSE List(n), dotenv |-> Empty,
            could |-> {before[normRepo[n]]} \cup posts[normRepo[n]], failed |-> failed]]
    /\ UNCHANGED <<secrets, form, before, posts, alone>>

\* Nothing is written for an empty BuildEnv.
WriteDotenv(b) ==
    /\ build[b].pc = "sent"
    /\ build' = [build EXCEPT ![b].pc = "built",
                              ![b].dotenv = IF build[b].env = Empty THEN @ ELSE build[b].env]
    /\ UNCHANGED <<secrets, form, before, posts, alone, spent>>

Finish(b) == /\ build[b].pc = "built"
             /\ build' = [build EXCEPT ![b] = NoBuild]
             /\ UNCHANGED <<secrets, form, before, posts, alone, spent>>

-----------------------------------------------------------------------------
Next ==
    \/ \E f \in Form : \/ \E n \in Name, text \in Texts : Post(f, n, text)
                       \/ \E k \in Key : UpsertNext(f, k) \/ DeleteNext(f, k)
                       \/ Saved(f) \/ Fails(f) \/ Answered(f)
    \/ \E b \in Build : \/ \E n \in Name, failed \in BOOLEAN : Hydrate(b, n, failed)
                        \/ WriteDotenv(b) \/ Finish(b)

Spec == Init /\ [][Next]_vars

-----------------------------------------------------------------------------
TypeOK ==
    /\ secrets \in [Name -> Texts] /\ before \in [Name -> Texts]
    /\ posts \in [Name -> SUBSET Texts]
    /\ form \in [Form -> Posting \cup {NoPost}] /\ build \in [Build -> Job \cup {NoBuild}]
    /\ alone \subseteq Form
    /\ spent \in [{"saves", "jobs"} -> Nat]

\* A POST that has been answered with saved, and that no other POST of the
\* repository overlapped or followed, has left exactly its text, under every
\* spelling of the name a build may come with (decision 15).
SavedAsPosted == \A f \in alone, n \in Name :
    At(f, "saved") /\ normRepo[n] = form[f].repo => List(n) = form[f].text

\* Without a transaction a build may start in the middle of POSTs, failing ones
\* among them.  Still every key it gets has the value it had before them or the
\* one a text of theirs has: a key all of these have is never missing, not for
\* a moment, and one none of them has is never there.
KeyByKey == \A b \in Build : build[b].pc # "none" /\ ~build[b].failed =>
    \A k \in Key : \E text \in build[b].could : build[b].env[k] = text[k]

\* The .env of a build is a text as the operator saved it, the one before a
\* POST or the one it posts, for the changes of a POST are one transaction.
NeverMixed == \A b \in Build : build[b].pc = "built" =>
    build[b].failed \/ build[b].dotenv \in build[b].could
=============================================================================
