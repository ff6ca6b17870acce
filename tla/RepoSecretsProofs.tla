------------------------- MODULE RepoSecretsProofs -------------------------
(***************************************************************************)
(* What RepoSecrets promises for every set of names, keys, values, POSTs   *)
(* and builds.  The invariant adds to the types what a POST owes: its text *)
(* is among the posted ones, the rows it has still to delete are those its *)
(* text leaves out (Owed), the rows of a repository are key by key from    *)
(* before or from a posted text (RowsKeyByKey), and a POST that is alone   *)
(* has changed every key it does not owe (AloneSoFar).                     *)
(*                                                                         *)
(* And what SecretText promises for texts of every length, by induction    *)
(* over the text: a text is its lines, and the lines are the stretches     *)
(* between line ends (Cuts), so that what is parsed line by line is what   *)
(* ParsedAsWritten reads off the text (Copies, Answers); and the rows,     *)
(* shown as lines, are read back (TextOfLines, RowsReadBack).  Induction   *)
(* is said of sets: Induct and SeqInduct are about a set of numbers or of  *)
(* sequences, which the provers can instantiate.  A fold is a CHOOSE: it   *)
(* is first shown to exist (FoldExists), then turned into its steps        *)
(* (FoldSteps).                                                            *)
(***************************************************************************)
EXTENDS RepoSecrets, SecretText, SequenceTheorems, FiniteSetTheorems, WellFoundedInduction, TLAPS

Owed == \A f \in Form : At(f, "apply") =>
    /\ normRepo[form[f].repo] = form[f].repo
    /\ form[f].text \in posts[form[f].repo]
    /\ \A k \in form[f].deletes : form[f].text[k] = NULL

RowsKeyByKey == \A n \in Name, k \in Key :
    \E text \in {before[n]} \cup posts[n] : secrets[n][k] = text[k]

AloneSoFar == \A f \in alone :
    /\ form[f].pc \in {"apply", "saved"}
    /\ \A g \in Form : At(g, "apply") /\ form[g].repo = form[f].repo => g = f
    /\ At(f, "apply") => \A k \in Key : k \in form[f].upserts \cup form[f].deletes
                                        \/ secrets[form[f].repo][k] = form[f].text[k]
    /\ At(f, "saved") => secrets[form[f].repo] = form[f].text

Inv == TypeOK /\ Owed /\ RowsKeyByKey /\ AloneSoFar /\ KeyByKey

LEMMA InitInv == Init => Inv
  <1> SUFFICES ASSUME Init PROVE Inv
    OBVIOUS
  <1> USE SecretsAssumption
  <1>1. Empty \in Texts
    BY DEF Empty, Texts
  <1>2. TypeOK
    <2>1. form \in [Form -> Posting \cup {NoPost}] /\ build \in [Build -> Job \cup {NoBuild}]
      BY DEF Init
    <2>2. spent \in [{"saves", "jobs"} -> Nat]
      BY DEF Init
    <2> QED  BY <1>1, <2>1, <2>2 DEF Init, TypeOK
  <1>3. Owed /\ KeyByKey /\ AloneSoFar
    BY DEF Init, Owed, KeyByKey, AloneSoFar, At, NoPost, NoBuild
  <1>4. RowsKeyByKey
    BY DEF Init, RowsKeyByKey
  <1> QED  BY <1>2, <1>3, <1>4 DEF Inv

\* A POST at work, and one that is over, are not NoPost.
LEMMA FormTyped ==
    ASSUME TypeOK, NEW f \in Form, form[f].pc # "none"
    PROVE  form[f] \in Posting
  BY DEF TypeOK, NoPost

\* What a count of Spend leaves is a count.
LEMMA SpendTyped ==
    ASSUME TypeOK, NEW what \in {"saves", "jobs"}, NEW max, Spend(what, max)
    PROVE  spent' \in [{"saves", "jobs"} -> Nat]
  BY DEF TypeOK, Spend

-----------------------------------------------------------------------------
(* One lemma for each action. *)

LEMMA PostInv ==
    ASSUME Inv, NEW f \in Form, NEW n \in Name, NEW text \in Texts, Post(f, n, text)
    PROVE  Inv'
  <1> DEFINE r == normRepo[n]
             ups == {k \in Key : text[k] # NULL /\ text[k] # List(r)[k]}
             dels == {k \in Key : text[k] = NULL /\ List(r)[k] # NULL}
             p == [pc |-> "apply", repo |-> r, text |-> text, upserts |-> ups, deletes |-> dels]
  <1>1. r \in Name /\ normRepo[r] = r
    BY SecretsAssumption
  <1>2. List(r) = secrets[r]
    BY <1>1 DEF List
  <1>3. p \in Posting
    BY <1>1 DEF Posting
  <1>4. /\ form' = [form EXCEPT ![f] = p]
        /\ posts' = [posts EXCEPT ![r] = posts[r] \cup {text}]
        /\ alone' = {g \in alone : form[g].repo # r} \cup (IF Applying(r) = {} THEN {f} ELSE {})
        /\ UNCHANGED <<secrets, build, before>>
    BY DEF Post, Begun
  <1>5. Spend("saves", MaxSaves) /\ At(f, "none")
    BY DEF Post
  <1>6. TypeOK'
    <2>1. spent' \in [{"saves", "jobs"} -> Nat]
      BY <1>5, SpendTyped DEF Inv
    <2>2. form' \in [Form -> Posting \cup {NoPost}]
      BY <1>3, <1>4 DEF Inv, TypeOK
    <2>3. posts' \in [Name -> SUBSET Texts] /\ alone' \subseteq Form
      BY <1>1, <1>4 DEF Inv, TypeOK
    <2> QED  BY <1>4, <2>1, <2>2, <2>3 DEF Inv, TypeOK
  <1>7. /\ form'[f] = p
        /\ \A g \in Form \ {f} : form'[g] = form[g]
        /\ posts'[r] = posts[r] \cup {text}
        /\ \A m \in Name : posts[m] \subseteq posts'[m]
    BY <1>1, <1>4 DEF Inv, TypeOK
  <1>8. p.pc = "apply" /\ p.repo = r /\ p.text = text /\ p.upserts = ups /\ p.deletes = dels
    OBVIOUS
  <1>9. Owed'
    <2> SUFFICES ASSUME NEW g \in Form, At(g, "apply")'
                 PROVE  (/\ normRepo[form[g].repo] = form[g].repo
                         /\ form[g].text \in posts[form[g].repo]
                         /\ \A k \in form[g].deletes : form[g].text[k] = NULL)'
      BY DEF Owed
    <2>1. CASE g = f
      BY <2>1, <1>1, <1>7, <1>8
    <2>2. CASE g # f
      <3>1. At(g, "apply") /\ form[g].repo \in Name
        BY <2>2, <1>7, FormTyped DEF At, Inv, Posting
      <3> QED  BY <2>2, <3>1, <1>7 DEF Inv, Owed
    <2> QED  BY <2>1, <2>2
  <1>10. RowsKeyByKey'
    <2> SUFFICES ASSUME NEW m \in Name, NEW k \in Key
                 PROVE  (\E t \in {before[m]} \cup posts[m] : secrets[m][k] = t[k])'
      BY DEF RowsKeyByKey
    <2> QED  BY <1>4, <1>7 DEF Inv, RowsKeyByKey
  <1>11. AloneSoFar'
    <2> SUFFICES ASSUME NEW g \in alone'
                 PROVE  (/\ form[g].pc \in {"apply", "saved"}
                         /\ \A h \in Form : At(h, "apply") /\ form[h].repo = form[g].repo => h = g
                         /\ At(g, "apply") => \A k \in Key :
                                k \in form[g].upserts \cup form[g].deletes
                                \/ secrets[form[g].repo][k] = form[g].text[k]
                         /\ At(g, "saved") => secrets[form[g].repo] = form[g].text)'
      BY DEF AloneSoFar
    <2>1. CASE g = f /\ Applying(r) = {}
      <3>1. \A h \in Form : form'[h].pc = "apply" /\ form'[h].repo = r => h = f
        BY <2>1, <1>7 DEF Applying, At
      <3>2. \A k \in Key : k \in ups \cup dels \/ secrets[r][k] = text[k]
        BY <1>2
      <3> QED  BY <2>1, <3>1, <3>2, <1>4, <1>7, <1>8 DEF At
    <2>2. CASE g \in alone /\ form[g].repo # r
      <3>1. g \in Form /\ g # f
        BY <2>2, <1>5 DEF Inv, TypeOK, AloneSoFar, At
      <3>2. form'[g] = form[g] /\ secrets' = secrets
        BY <3>1, <1>4, <1>7
      <3>3. \A h \in Form : form'[h].pc = "apply" /\ form'[h].repo = form[g].repo => h = g
        BY <2>2, <1>7, <1>8 DEF Inv, AloneSoFar, At
      <3> QED  BY <2>2, <3>2, <3>3 DEF Inv, AloneSoFar, At
    <2> QED  BY <2>1, <2>2, <1>4
  <1>12. KeyByKey'
    BY <1>4 DEF Inv, KeyByKey
  <1> QED  BY <1>6, <1>9, <1>10, <1>11, <1>12 DEF Inv

\* UpsertNext and DeleteNext: one key gets what the text has for it.
LEMMA WriteInv ==
    ASSUME Inv, NEW f \in Form, NEW k \in Key, At(f, "apply"),
           secrets' = [secrets EXCEPT ![form[f].repo][k] = form[f].text[k]],
           \/ form' = [form EXCEPT ![f].upserts = form[f].upserts \ {k}]
           \/ form' = [form EXCEPT ![f].deletes = form[f].deletes \ {k}],
           UNCHANGED <<build, before, posts, alone, spent>>
    PROVE  Inv'
  <1> DEFINE r == form[f].repo
             text == form[f].text
  <1>1. form[f] \in Posting /\ r \in Name /\ text \in Texts /\ text \in posts[r]
    BY FormTyped DEF Inv, At, Posting, Owed
  <1>2. /\ form' \in [Form -> Posting \cup {NoPost}]
        /\ form'[f] \in Posting
        /\ \A g \in Form \ {f} : form'[g] = form[g]
        /\ form'[f].pc = "apply" /\ form'[f].repo = r /\ form'[f].text = text
        /\ form'[f].deletes \subseteq form[f].deletes
        /\ (form[f].upserts \cup form[f].deletes) \ {k}
               \subseteq form'[f].upserts \cup form'[f].deletes
    <2>1. CASE form' = [form EXCEPT ![f].upserts = form[f].upserts \ {k}]
      BY <2>1, <1>1 DEF Inv, TypeOK, Posting, At
    <2>2. CASE form' = [form EXCEPT ![f].deletes = form[f].deletes \ {k}]
      BY <2>2, <1>1 DEF Inv, TypeOK, Posting, At
    <2> QED  BY <2>1, <2>2
  <1>3. /\ secrets' \in [Name -> Texts]
        /\ secrets'[r][k] = text[k]
        /\ \A l \in Key \ {k} : secrets'[r][l] = secrets[r][l]
        /\ \A m \in Name \ {r} : secrets'[m] = secrets[m]
    BY <1>1 DEF Inv, TypeOK, Texts
  <1>4. TypeOK'
    BY <1>2, <1>3 DEF Inv, TypeOK
  <1>5. Owed'
    <2> SUFFICES ASSUME NEW g \in Form, At(g, "apply")'
                 PROVE  (/\ normRepo[form[g].repo] = form[g].repo
                         /\ form[g].text \in posts[form[g].repo]
                         /\ \A l \in form[g].deletes : form[g].text[l] = NULL)'
      BY DEF Owed
    <2>1. CASE g = f
      BY <2>1, <1>1, <1>2 DEF Inv, Owed
    <2>2. CASE g # f
      BY <2>2, <1>2 DEF Inv, Owed, At
    <2> QED  BY <2>1, <2>2
  <1>6. RowsKeyByKey'
    <2> SUFFICES ASSUME NEW m \in Name, NEW l \in Key
                 PROVE  \E t \in {before[m]} \cup posts[m] : secrets'[m][l] = t[l]
      BY DEF RowsKeyByKey
    <2>1. CASE m = r /\ l = k
      BY <2>1, <1>1, <1>3
    <2>2. CASE ~(m = r /\ l = k)
      <3>1. secrets'[m][l] = secrets[m][l]
        BY <2>2, <1>3
      <3> QED  BY <3>1 DEF Inv, RowsKeyByKey
    <2> QED  BY <2>1, <2>2
  <1>7. AloneSoFar'
    <2> SUFFICES ASSUME NEW g \in alone
                 PROVE  (/\ form[g].pc \in {"apply", "saved"}
                         /\ \A h \in Form : At(h, "apply") /\ form[h].repo = form[g].repo => h = g
                         /\ At(g, "apply") => \A l \in Key :
                                l \in form[g].upserts \cup form[g].deletes
                                \/ secrets[form[g].repo][l] = form[g].text[l]
                         /\ At(g, "saved") => secrets[form[g].repo] = form[g].text)'
      BY DEF AloneSoFar
    <2>1. g \in Form
      BY DEF Inv, TypeOK
    <2>2. CASE g = f
      <3>1. \A h \in Form : form'[h].pc = "apply" /\ form'[h].repo = r => h = f
        BY <2>2, <1>2 DEF Inv, AloneSoFar, At
      <3>2. \A l \in Key : l \in form'[f].upserts \cup form'[f].deletes
                           \/ secrets'[r][l] = text[l]
        BY <2>2, <1>2, <1>3 DEF Inv, AloneSoFar
      <3> QED  BY <2>2, <3>1, <3>2, <1>2 DEF At
    <2>3. CASE g # f
      <3>1. form[g].repo # r
        BY <2>3 DEF Inv, AloneSoFar
      <3>2. form[g].repo \in Name
        BY <2>1, FormTyped DEF Inv, AloneSoFar, Posting
      <3>3. form'[g] = form[g] /\ secrets'[form[g].repo] = secrets[form[g].repo]
        BY <2>1, <2>3, <3>1, <3>2, <1>2, <1>3
      <3>4. \A h \in Form : form'[h].pc = "apply" /\ form'[h].repo = form[g].repo => h = g
        BY <3>1, <1>2 DEF Inv, AloneSoFar, At
      <3> QED  BY <3>3, <3>4 DEF Inv, AloneSoFar, At
    <2> QED  BY <2>2, <2>3
  <1>8. KeyByKey'
    BY DEF Inv, KeyByKey
  <1> QED  BY <1>4, <1>5, <1>6, <1>7, <1>8 DEF Inv

LEMMA UpsertInv ==
    ASSUME Inv, NEW f \in Form, NEW k \in Key, UpsertNext(f, k)
    PROVE  Inv'
  <1>1. At(f, "apply") /\ normRepo[form[f].repo] = form[f].repo
    BY DEF UpsertNext, Inv, Owed
  <1> QED  BY <1>1, WriteInv DEF UpsertNext, Upsert

LEMMA DeleteInv ==
    ASSUME Inv, NEW f \in Form, NEW k \in Key, DeleteNext(f, k)
    PROVE  Inv'
  <1>1. /\ At(f, "apply") /\ normRepo[form[f].repo] = form[f].repo
        /\ form[f].text[k] = NULL
    BY DEF DeleteNext, Inv, Owed
  <1> QED  BY <1>1, WriteInv DEF DeleteNext, Delete

\* Saved and Fails: a POST is over.
LEMMA EndedInv ==
    ASSUME Inv, NEW f \in Form, NEW pc, At(f, "apply"), Ended(f, pc),
           \/ pc = "saved" /\ form[f].upserts = {} /\ form[f].deletes = {} /\ alone' = alone
           \/ pc = "failed" /\ alone' = alone \ {f}
    PROVE  Inv'
  <1> DEFINE r == form[f].repo
             last == Applying(r) = {f}
  <1>1. form[f] \in Posting /\ r \in Name
    BY FormTyped DEF Inv, At, Posting
  <1>2. /\ form' = [form EXCEPT ![f].pc = pc]
        /\ before' = [before EXCEPT ![r] = IF last THEN secrets[r] ELSE before[r]]
        /\ posts' = [posts EXCEPT ![r] = IF last THEN {} ELSE posts[r]]
        /\ UNCHANGED <<secrets, build, spent>>
    BY DEF Ended
  <1>3. /\ form' \in [Form -> Posting \cup {NoPost}]
        /\ \A g \in Form \ {f} : form'[g] = form[g]
        /\ form'[f].pc = pc /\ form'[f].repo = r /\ form'[f].text = form[f].text
    BY <1>1, <1>2 DEF Inv, TypeOK, Posting
  <1>4. TypeOK'
    <2>1. before' \in [Name -> Texts] /\ posts' \in [Name -> SUBSET Texts]
      BY <1>1, <1>2 DEF Inv, TypeOK
    <2>2. alone' \subseteq Form
      BY DEF Inv, TypeOK
    <2> QED  BY <1>2, <1>3, <2>1, <2>2 DEF Inv, TypeOK
  <1>5. \A g \in Form : form'[g].pc = "apply" =>
            g # f /\ form[g].pc = "apply" /\ form'[g] = form[g]
    BY <1>3
  <1>6. Owed'
    <2> SUFFICES ASSUME NEW g \in Form, At(g, "apply")'
                 PROVE  (/\ normRepo[form[g].repo] = form[g].repo
                         /\ form[g].text \in posts[form[g].repo]
                         /\ \A k \in form[g].deletes : form[g].text[k] = NULL)'
      BY DEF Owed
    <2>1. g # f /\ At(g, "apply") /\ form'[g] = form[g]
      BY <1>5 DEF At
    <2>2. form[g].repo \in Name
      BY <2>1, FormTyped DEF Inv, At, Posting
    <2>3. form[g].repo = r => ~last
      BY <2>1 DEF Applying
    <2>4. posts'[form[g].repo] = posts[form[g].repo]
      BY <1>1, <1>2, <2>2, <2>3 DEF Inv, TypeOK
    <2> QED  BY <2>1, <2>4 DEF Inv, Owed
  <1>7. RowsKeyByKey'
    <2> SUFFICES ASSUME NEW m \in Name, NEW k \in Key
                 PROVE  \E t \in {before'[m]} \cup posts'[m] : secrets[m][k] = t[k]
      BY <1>2 DEF RowsKeyByKey
    <2>1. CASE m = r /\ last
      BY <2>1, <1>1, <1>2 DEF Inv, TypeOK
    <2>2. CASE ~(m = r /\ last)
      <3>1. before'[m] = before[m] /\ posts'[m] = posts[m]
        BY <2>2, <1>1, <1>2 DEF Inv, TypeOK
      <3> QED  BY <3>1 DEF Inv, RowsKeyByKey
    <2> QED  BY <2>1, <2>2
  <1>8. AloneSoFar'
    <2> SUFFICES ASSUME NEW g \in alone'
                 PROVE  (/\ form[g].pc \in {"apply", "saved"}
                         /\ \A h \in Form : At(h, "apply") /\ form[h].repo = form[g].repo => h = g
                         /\ At(g, "apply") => \A k \in Key :
                                k \in form[g].upserts \cup form[g].deletes
                                \/ secrets[form[g].repo][k] = form[g].text[k]
                         /\ At(g, "saved") => secrets[form[g].repo] = form[g].text)'
      BY DEF AloneSoFar
    <2>1. g \in alone /\ g \in Form
      BY DEF Inv, TypeOK
    <2>2. form'[g].repo = form[g].repo
      BY <2>1, <1>3
    <2>3. \A h \in Form : form'[h].pc = "apply" /\ form'[h].repo = form'[g].repo => h = g
      BY <2>1, <2>2, <1>5 DEF Inv, AloneSoFar, At
    <2>4. CASE g = f
      <3>1. pc = "saved" /\ form[f].upserts = {} /\ form[f].deletes = {}
        BY <2>4
      <3>2. \A k \in Key : secrets[r][k] = form[f].text[k]
        BY <2>1, <2>4, <3>1 DEF Inv, AloneSoFar
      <3>3. secrets[r] = form[f].text
        BY <1>1, <3>2 DEF Inv, TypeOK, Texts, Posting
      <3> QED  BY <2>3, <2>4, <3>1, <3>3, <1>2, <1>3 DEF At
    <2>5. CASE g # f
      <3>1. form'[g] = form[g]
        BY <2>1, <2>5, <1>3
      <3> QED  BY <2>1, <2>3, <3>1, <1>2 DEF Inv, AloneSoFar, At
    <2> QED  BY <2>4, <2>5
  <1>9. KeyByKey'
    BY <1>2 DEF Inv, KeyByKey
  <1> QED  BY <1>4, <1>6, <1>7, <1>8, <1>9 DEF Inv

LEMMA AnsweredInv ==
    ASSUME Inv, NEW f \in Form, Answered(f)
    PROVE  Inv'
  <1>1. /\ form' = [form EXCEPT ![f] = NoPost] /\ alone' = alone \ {f}
        /\ UNCHANGED <<secrets, build, before, posts, spent>>
    BY DEF Answered
  <1>2. /\ form'[f].pc = "none"
        /\ \A g \in Form \ {f} : form'[g] = form[g]
    BY <1>1 DEF Inv, TypeOK, NoPost
  <1>3. TypeOK'
    BY <1>1 DEF Inv, TypeOK
  <1>4. Owed'
    BY <1>1, <1>2 DEF Inv, Owed, At
  <1>5. RowsKeyByKey' /\ KeyByKey'
    BY <1>1 DEF Inv, RowsKeyByKey, KeyByKey
  <1>6. AloneSoFar'
    <2>1. \A g \in alone' : g \in Form /\ g \in alone /\ form'[g] = form[g]
      BY <1>1, <1>2 DEF Inv, TypeOK
    <2>2. \A h \in Form : form'[h].pc = "apply" => form'[h] = form[h]
      BY <1>2
    <2> QED  BY <1>1, <2>1, <2>2 DEF Inv, AloneSoFar, At
  <1> QED  BY <1>3, <1>4, <1>5, <1>6 DEF Inv

\* A build is new, or keeps the env it came with.
LEMMA HydrateInv ==
    ASSUME Inv, NEW b \in Build, NEW n \in Name, NEW failed \in BOOLEAN, Hydrate(b, n, failed)
    PROVE  Inv'
  <1> DEFINE env == IF failed THEN Empty ELSE List(n)
             r == normRepo[n]
             j == [pc |-> "sent", env |-> env, dotenv |-> Empty,
                   could |-> {before[r]} \cup posts[r], failed |-> failed]
  <1>1. r \in Name
    BY SecretsAssumption
  <1>2. Empty \in Texts /\ List(n) \in Texts /\ List(n) = secrets[r]
    BY <1>1 DEF Empty, Texts, List, Inv, TypeOK
  <1>3. j \in Job
    <2>1. {before[r]} \cup posts[r] \in SUBSET Texts
      BY <1>1 DEF Inv, TypeOK
    <2> QED  BY <1>2, <2>1 DEF Job
  <1>4. /\ build' = [build EXCEPT ![b] = j]
        /\ UNCHANGED <<secrets, form, before, posts, alone>>
        /\ Spend("jobs", MaxJobs)
    BY DEF Hydrate
  <1>5. TypeOK'
    <2>1. spent' \in [{"saves", "jobs"} -> Nat]
      BY <1>4, SpendTyped DEF Inv
    <2>2. build' \in [Build -> Job \cup {NoBuild}]
      BY <1>3, <1>4 DEF Inv, TypeOK
    <2> QED  BY <1>4, <2>1, <2>2 DEF Inv, TypeOK
  <1>6. Owed' /\ RowsKeyByKey' /\ AloneSoFar'
    BY <1>4 DEF Inv, Owed, RowsKeyByKey, AloneSoFar, At
  <1>7. KeyByKey'
    <2> SUFFICES ASSUME NEW c \in Build, build'[c].pc # "none", ~build'[c].failed, NEW k \in Key
                 PROVE  \E text \in build'[c].could : build'[c].env[k] = text[k]
      BY DEF KeyByKey
    <2>1. CASE c = b
      <3>1. build'[c] = j
        BY <2>1, <1>4 DEF Inv, TypeOK
      <3>2. j.could = {before[r]} \cup posts[r] /\ j.failed = failed /\ j.env = env
        OBVIOUS
      <3>3. env = secrets[r]
        BY <1>2, <3>1, <3>2
      <3> QED  BY <3>1, <3>2, <3>3, <1>1 DEF Inv, RowsKeyByKey
    <2>2. CASE c # b
      BY <2>2, <1>4 DEF Inv, TypeOK, KeyByKey
    <2> QED  BY <2>1, <2>2
  <1> QED  BY <1>5, <1>6, <1>7 DEF Inv

LEMMA BuildInv ==
    ASSUME Inv, NEW b \in Build, WriteDotenv(b) \/ Finish(b)
    PROVE  Inv'
  <1>1. UNCHANGED <<secrets, form, before, posts, alone, spent>>
    BY DEF WriteDotenv, Finish
  <1>2. /\ build' \in [Build -> Job \cup {NoBuild}]
        /\ \A c \in Build : \/ build'[c].pc = "none"
                            \/ /\ build[c].pc # "none"
                               /\ build'[c].env = build[c].env
                               /\ build'[c].could = build[c].could
                               /\ build'[c].failed = build[c].failed
    <2>1. CASE WriteDotenv(b)
      <3> DEFINE d == IF build[b].env = Empty THEN build[b].dotenv ELSE build[b].env
      <3>1. build[b] \in Job
        BY <2>1 DEF WriteDotenv, Inv, TypeOK, NoBuild
      <3>2. d \in Texts
        BY <3>1 DEF Job
      <3>3. build' = [build EXCEPT ![b].pc = "built", ![b].dotenv = d]
        BY <2>1 DEF WriteDotenv
      <3> HIDE DEF d
      <3>4. build'[b] \in Job /\ build'[b].env = build[b].env
            /\ build'[b].could = build[b].could /\ build'[b].failed = build[b].failed
        BY <3>1, <3>2, <3>3 DEF Inv, TypeOK, Job
      <3>5. \A c \in Build \ {b} : build'[c] = build[c]
        BY <3>3 DEF Inv, TypeOK
      <3>6. DOMAIN build' = Build
        BY <3>3 DEF Inv, TypeOK
      <3>7. build' \in [Build -> Job \cup {NoBuild}]
        BY <3>3, <3>4, <3>5, <3>6 DEF Inv, TypeOK
      <3>8. build[b].pc # "none"
        BY <2>1 DEF WriteDotenv
      <3> QED  BY <3>4, <3>5, <3>7, <3>8
    <2>2. CASE Finish(b)
      BY <2>2 DEF Finish, Inv, TypeOK, NoBuild
    <2> QED  BY <2>1, <2>2
  <1>3. TypeOK'
    BY <1>1, <1>2 DEF Inv, TypeOK
  <1>4. Owed' /\ RowsKeyByKey' /\ AloneSoFar'
    BY <1>1 DEF Inv, Owed, RowsKeyByKey, AloneSoFar, At
  <1>5. KeyByKey'
    BY <1>2 DEF Inv, KeyByKey
  <1> QED  BY <1>3, <1>4, <1>5 DEF Inv

LEMMA NextInv == Inv /\ [Next]_vars => Inv'
  <1> SUFFICES ASSUME Inv, [Next]_vars PROVE Inv'
    OBVIOUS
  <1>1. CASE \E f \in Form, n \in Name, text \in Texts : Post(f, n, text)
    BY <1>1, PostInv
  <1>2. CASE \E f \in Form, k \in Key : UpsertNext(f, k) \/ DeleteNext(f, k)
    BY <1>2, UpsertInv, DeleteInv
  <1>3. CASE \E f \in Form : Saved(f) \/ Fails(f)
    BY <1>3, EndedInv DEF Saved, Fails
  <1>4. CASE \E f \in Form : Answered(f)
    BY <1>4, AnsweredInv
  <1>5. CASE \E b \in Build, n \in Name, failed \in BOOLEAN : Hydrate(b, n, failed)
    BY <1>5, HydrateInv
  <1>6. CASE \E b \in Build : WriteDotenv(b) \/ Finish(b)
    BY <1>6, BuildInv
  <1>7. CASE UNCHANGED vars
    BY <1>7 DEF vars, Inv, TypeOK, Owed, RowsKeyByKey, AloneSoFar, KeyByKey, At
  <1> QED  BY <1>1, <1>2, <1>3, <1>4, <1>5, <1>6, <1>7 DEF Next

LEMMA SpecInv == Spec => []Inv
  BY InitInv, NextInv, PTL DEF Spec

-----------------------------------------------------------------------------
\* The rows, the POSTs and the builds keep their types.
THEOREM SecretTypes == Spec => []TypeOK
  BY SpecInv, PTL DEF Inv

\* applySecretDiff: a POST that is alone and is answered with saved has left
\* its text, whatever was there and whatever the spelling of the name.
THEOREM SavedIsPosted == Spec => []SavedAsPosted
  <1>1. Inv => SavedAsPosted
    <2> SUFFICES ASSUME Inv, NEW f \in alone, NEW n \in Name,
                        At(f, "saved"), normRepo[n] = form[f].repo
                 PROVE  List(n) = form[f].text
      BY DEF SavedAsPosted
    <2> QED  BY DEF Inv, AloneSoFar, List
  <1> QED  BY <1>1, SpecInv, PTL

\* hydrateBuildEnv: whatever POSTs it comes between, every key of the env has
\* its value from before them or from one of their texts.
THEOREM EnvKeyByKey == Spec => []KeyByKey
  BY SpecInv, PTL DEF Inv

-----------------------------------------------------------------------------
(* Induction over numbers and sequences, said with sets: what the provers  *)
(* can instantiate.                                                        *)

Less == OpToRel(<, Nat)

\* A set of naturals that is not empty has a least element.
LEMMA LeastOf ==
  ASSUME NEW T \in SUBSET Nat, T # {}
  PROVE  \E x \in T : \A y \in T : x <= y
<1>1. IsWellFoundedOn(Less, Nat)
  BY NatLessThanWellFounded DEF Less
<1>2. \A x, y \in Nat : <<x, y>> \in Less <=> x < y
  BY DEF Less, OpToRel
<1>3. PICK x \in T : \A y \in T : ~(<<y, x>> \in Less)
  BY <1>1, WFMin
<1>4. \A y \in T : x <= y
  <2> TAKE y \in T
  <2>1. x \in Nat /\ y \in Nat
    OBVIOUS
  <2>2. ~(y < x)
    BY <1>2, <1>3, <2>1
  <2> QED BY <2>1, <2>2
<1> QED BY <1>4

\* Induction: a set that has 0 and the successor of each of its naturals has them all.
LEMMA Induct ==
  ASSUME NEW S, 0 \in S, \A n \in Nat : n \in S => n + 1 \in S
  PROVE  Nat \subseteq S
<1> DEFINE T == Nat \ S
<1>1. SUFFICES ASSUME T # {} PROVE FALSE
  OBVIOUS
<1>2. PICK x \in T : \A y \in T : x <= y
  BY <1>1, LeastOf
<1>3. x # 0 /\ x \in Nat
  OBVIOUS
<1>4. x - 1 \in Nat /\ x - 1 \in S
  BY <1>2, <1>3
<1> QED BY <1>3, <1>4

\* Induction over sequences that grow at their end.
LEMMA SeqInduct ==
  ASSUME NEW A, NEW T, <<>> \in T,
         \A s \in Seq(A) : s \in T => \A a \in A : Append(s, a) \in T
  PROVE  Seq(A) \subseteq T
<1> DEFINE S == {n \in Nat : \A s \in Seq(A) : Len(s) = n => s \in T}
<1>1. 0 \in S
  BY EmptySeq
<1>2. ASSUME NEW n \in Nat, n \in S PROVE n + 1 \in S
  <2>1. SUFFICES ASSUME NEW s \in Seq(A), Len(s) = n + 1 PROVE s \in T
    OBVIOUS
  <2> DEFINE r == [i \in 1..n |-> s[i]]
  <2>2. s \in [1..(n + 1) -> A] /\ DOMAIN s = 1..(n + 1)
    BY <2>1, LenProperties
  <2>3. r \in Seq(A) /\ Len(r) = n
    BY <2>2
  <2>4. r \in T
    BY <1>2, <2>3
  <2>5. s[n + 1] \in A
    BY <2>2
  <2>6. Append(r, s[n + 1]) \in T
    BY <2>3, <2>4, <2>5
  <2> HIDE DEF S
  <2>7. Append(r, s[n + 1]) = s
    <3>1. /\ Append(r, s[n + 1]) \in Seq(A) /\ Len(Append(r, s[n + 1])) = n + 1
          /\ \A i \in 1..n : Append(r, s[n + 1])[i] = r[i]
          /\ Append(r, s[n + 1])[n + 1] = s[n + 1]
      <4> HIDE DEF r
      <4> QED BY <2>3, <2>5, AppendProperties
    <3>2. \A i \in 1..(n + 1) : Append(r, s[n + 1])[i] = s[i]
      BY <3>1
    <3> HIDE DEF r
    <3> QED BY <2>1, <3>1, <3>2, SeqEqual
  <2> QED BY <2>6, <2>7
<1>3. Nat \subseteq S
  <2> HIDE DEF S
  <2> QED BY <1>1, <1>2, Induct
<1>4. SUFFICES ASSUME NEW s \in Seq(A) PROVE s \in T
  OBVIOUS
<1>5. Len(s) \in Nat
  BY LenProperties
<1> QED BY <1>3, <1>5

\* The least element.
LEMMA MinIs ==
  ASSUME NEW S \in SUBSET Nat, S # {}
  PROVE  Min(S) \in S /\ \A y \in S : Min(S) <= y
BY LeastOf DEF Min

\* The greatest element of a bounded set.
LEMMA MaxIs ==
  ASSUME NEW n \in Nat, NEW S \in SUBSET (0..n), S # {}
  PROVE  Max(S) \in S /\ \A y \in S : y <= Max(S)
<1> DEFINE T == {n - y : y \in S}
<1>1. T \in SUBSET Nat
  <2>1. \A y \in S : n - y \in Nat
    OBVIOUS
  <2> QED BY <2>1
<1> T # {}
  OBVIOUS
<1>2. PICK x \in T : \A y \in T : x <= y
  BY <1>1, LeastOf
<1>3. PICK z \in S : x = n - z
  BY <1>2
<1>4. \A y \in S : z >= y
  <2> TAKE y \in S
  <2>1. n - z <= n - y
    BY <1>2, <1>3
  <2> QED BY <2>1
<1>5. \E z1 \in S : \A y \in S : z1 >= y
  BY <1>4
<1>6. Max(S) \in S /\ \A y \in S : Max(S) >= y
  BY <1>5 DEF Max
<1> QED BY <1>6

LEMMA MaxOfRange ==
  ASSUME NEW k \in Nat, k # 0
  PROVE  Max(1..k) = k /\ (1..k) \ {k} = 1..(k - 1)
<1>1. 1..k \in SUBSET (0..k) /\ 1..k # {}
  OBVIOUS
<1>2. Max(1..k) \in 1..k /\ \A y \in 1..k : y <= Max(1..k)
  BY <1>1, MaxIs
<1>3. k <= Max(1..k) /\ Max(1..k) <= k
  BY <1>2
<1> QED BY <1>2, <1>3

-----------------------------------------------------------------------------
(* What a fold is.                                                         *)

\* g folds F over the subsets of 1..n from the left, the way MapThenFoldSet does.
Folds(g, n, base, F) ==
    \A s \in SUBSET (1..n) : g[s] = IF s = {} THEN base ELSE F[<<g[s \ {Max(s)}], Max(s)>>]

\* f is the result after each of the steps of a fold.
Stepwise(f, n, base, F) == f[0] = base /\ \A k \in 1..n : f[k] = F[<<f[k - 1], k>>]

LEMMA FoldExists ==
  ASSUME NEW n \in Nat, NEW V, NEW base \in V, NEW F \in [V \X (1..n) -> V]
  PROVE  \E g \in [SUBSET (1..n) -> V] : Folds(g, n, base, F)
<1> DEFINE D == SUBSET (1..n)
           Right(g, s) == IF s = {} THEN base ELSE F[<<g[s \ {Max(s)}], Max(s)>>]
           Upto(k) == \E g \in [D -> V] : \A s \in SUBSET (1..k) : g[s] = Right(g, s)
           S == {k \in Nat : k <= n => Upto(k)}
<1>1. 0 \in S
  <2> DEFINE g == [s \in D |-> base]
  <2>1. g \in [D -> V]
    OBVIOUS
  <2>2. \A s \in SUBSET (1..0) : s = {} /\ s \in D
    OBVIOUS
  <2>3. \A s \in SUBSET (1..0) : g[s] = Right(g, s)
    BY <2>2
  <2>4. Upto(0)
    BY <2>1, <2>3
  <2> QED BY <2>4
<1>2. ASSUME NEW k \in Nat, k \in S PROVE k + 1 \in S
  <2>1. SUFFICES ASSUME k + 1 <= n PROVE Upto(k + 1)
    <3> HIDE DEF Upto
    <3> QED OBVIOUS
  <2>2. Upto(k)
    <3> HIDE DEF Upto
    <3> QED BY <1>2, <2>1
  <2>3. PICK g \in [D -> V] : \A s \in SUBSET (1..k) : g[s] = Right(g, s)
    BY <2>2
  <2> DEFINE h == [s \in D |-> IF k + 1 \in s THEN F[<<g[s \ {k + 1}], k + 1>>] ELSE g[s]]
  <2>4. h \in [D -> V]
    <3>1. ASSUME NEW s \in D PROVE (IF k + 1 \in s THEN F[<<g[s \ {k + 1}], k + 1>>] ELSE g[s]) \in V
      <4>1. s \ {k + 1} \in D
        OBVIOUS
      <4>2. g[s \ {k + 1}] \in V /\ g[s] \in V /\ k + 1 \in 1..n
        BY <2>1, <4>1
      <4> QED BY <4>2
    <3> QED BY <3>1
  <2>5. ASSUME NEW s \in SUBSET (1..(k + 1)) PROVE h[s] = Right(h, s)
    <3>1. s \in D /\ s \in SUBSET (0..(k + 1))
      BY <2>1
    <3>2. CASE k + 1 \in s
      <4>1. Max(s) \in s /\ \A y \in s : y <= Max(s)
        <5>1. k + 1 \in Nat /\ s # {}
          BY <3>2
        <5> QED BY <3>1, <5>1, MaxIs
      <4>2. Max(s) = k + 1
        <5>1. Max(s) \in 1..(k + 1) /\ k + 1 <= Max(s)
          BY <3>2, <4>1
        <5> QED BY <5>1
      <4>3. s \ {k + 1} \in D /\ h[s \ {k + 1}] = g[s \ {k + 1}]
        BY <3>1
      <4> QED BY <3>1, <3>2, <4>2, <4>3
    <3>3. CASE k + 1 \notin s
      <4>1. s \in SUBSET (1..k)
        <5>1. ASSUME NEW y \in s PROVE y \in 1..k
          <6>1. y \in 1..(k + 1) /\ y # k + 1
            BY <3>3
          <6> QED BY <6>1
        <5> QED BY <5>1
      <4>2. s \ {Max(s)} \in D /\ k + 1 \notin s \ {Max(s)}
        BY <3>1, <3>3
      <4>3. h[s] = g[s] /\ h[s \ {Max(s)}] = g[s \ {Max(s)}]
        BY <3>1, <3>3, <4>2
      <4>4. g[s] = Right(g, s)
        BY <2>3, <4>1
      <4> QED BY <4>3, <4>4
    <3> QED BY <3>2, <3>3
  <2> QED BY <2>4, <2>5
<1>3. Nat \subseteq S
  <2> HIDE DEF S
  <2> QED BY <1>1, <1>2, Induct
<1>4. Upto(n)
  <2> HIDE DEF Upto
  <2>1. n \in S
    BY <1>3
  <2> QED BY <2>1
<1> PICK g \in [D -> V] : \A s \in SUBSET (1..n) : g[s] = Right(g, s)
  BY <1>4
<1> QED BY DEF Folds

\* c is what has been made of the beginnings of a sequence.
Made(c, n, V, F) == \A k \in 1..n : c[1..(k - 1)] \in V => c[1..k] = F[<<c[1..(k - 1)], k>>]

\* A function with its result after each step.
InSteps(c, n, V, base, F) == \E f \in [0..n -> V] : f[n] = c[1..n] /\ Stepwise(f, n, base, F)

LEMMA FoldSteps ==
  ASSUME NEW n \in Nat, NEW V, NEW base \in V, NEW F \in [V \X (1..n) -> V],
         NEW c, c[{}] = base, Made(c, n, V, F)
  PROVE  InSteps(c, n, V, base, F)
<1> DEFINE S == {k \in Nat : k <= n => c[1..k] \in V}
           f == [k \in 0..n |-> c[1..k]]
<1>1. 1..0 = {}
  OBVIOUS
<1>2. 0 \in S
  BY <1>1
<1>3. ASSUME NEW k \in Nat, k \in S PROVE k + 1 \in S
  <2>1. SUFFICES ASSUME k + 1 <= n PROVE c[1..(k + 1)] \in V
    OBVIOUS
  <2>2. k + 1 \in 1..n /\ (k + 1) - 1 = k /\ c[1..k] \in V
    BY <1>3, <2>1
  <2>3. c[1..(k + 1)] = F[<<c[1..k], k + 1>>]
    BY <2>2 DEF Made
  <2> QED BY <2>2, <2>3
<1>4. Nat \subseteq S
  <2> HIDE DEF S
  <2> QED BY <1>2, <1>3, Induct
<1>5. f \in [0..n -> V]
  BY <1>4
<1>6. f[0] = base /\ f[n] = c[1..n]
  BY <1>1
<1>7. ASSUME NEW k \in 1..n PROVE f[k] = F[<<f[k - 1], k>>]
  <2>1. k \in 0..n /\ k - 1 \in 0..n
    OBVIOUS
  <2>2. c[1..(k - 1)] \in V
    BY <1>4, <2>1
  <2>3. c[1..k] = F[<<c[1..(k - 1)], k>>]
    BY <2>2 DEF Made
  <2> QED BY <2>1, <2>3
<1>8. Stepwise(f, n, base, F)
  <2> HIDE DEF f
  <2> QED BY <1>6, <1>7 DEF Stepwise
<1> HIDE DEF f
<1> QED BY <1>5, <1>6, <1>8 DEF InSteps

-----------------------------------------------------------------------------
(* The lines of a text, one character at a time.                           *)

Line == Seq(Char)

Joined(t, ls, i) ==
    IF t[i] = LF /\ i > 1 /\ t[i - 1] = CR THEN ls
    ELSE IF t[i] \in {CR, LF} THEN Append(ls, <<>>)
    ELSE [ls EXCEPT ![Len(ls)] = Append(@, t[i])]

LEMMA JoinedType ==
  ASSUME NEW t \in Line, NEW ls \in Seq(Line), ls # <<>>, NEW i \in 1..Len(t)
  PROVE  Joined(t, ls, i) \in Seq(Line) /\ Joined(t, ls, i) # <<>>
<1>1. t[i] \in Char
  BY ElementOfSeq DEF Line
<1>2. <<>> \in Line
  BY EmptySeq DEF Line
<1>3. Len(ls) \in 1..Len(ls)
  BY EmptySeq
<1>4. ls[Len(ls)] \in Line
  BY <1>3, ElementOfSeq
<1>5. Append(ls[Len(ls)], t[i]) \in Line
  BY <1>1, <1>4, AppendProperties DEF Line
<1>6. Append(ls, <<>>) \in Seq(Line) /\ Append(ls, <<>>) # <<>>
  BY <1>2, AppendProperties
<1> DEFINE e == Append(ls[Len(ls)], t[i])
<1>7. /\ [ls EXCEPT ![Len(ls)] = e] \in Seq(Line)
      /\ Len([ls EXCEPT ![Len(ls)] = e]) = Len(ls)
  <2> HIDE DEF e
  <2> QED BY <1>3, <1>5, ExceptSeq DEF e
<1>8. [ls EXCEPT ![Len(ls)] = e] # <<>>
  <2> HIDE DEF e
  <2> QED BY <1>3, <1>7, EmptySeq
<1> QED BY <1>6, <1>7, <1>8 DEF Joined

\* f[k] are the lines of the first k of the n characters of t.
Joins(f, t, n) == f[0] = << <<>> >> /\ \A k \in 1..n : f[k] = Joined(t, f[k - 1], k)

LEMMA LinesSteps ==
  ASSUME NEW t \in Line
  PROVE  \E f \in [0..Len(t) -> Seq(Line) \ {<<>>}] :
            Joins(f, t, Len(t)) /\ Lines(t) = f[Len(t)]
<1> DEFINE n == Len(t)
           V == Seq(Line) \ {<<>>}
           base == << <<>> >>
           F == [p \in V \X (1..n) |-> Joined(t, p[1], p[2])]
           H(h) == h = [s \in SUBSET (1..n) |->
                          IF s = {} THEN base ELSE Joined(t, h[s \ {Max(s)}], [i \in 1..n |-> i][Max(s)])]
<1>1. n \in Nat /\ DOMAIN t = 1..n
  BY LenProperties DEF Line
<1>2. base \in V
  BY EmptySeq DEF Line
<1>3. F \in [V \X (1..n) -> V]
  BY JoinedType
<1>4. \E h : H(h)
  <2>1. PICK g \in [SUBSET (1..n) -> V] : Folds(g, n, base, F)
    <3>1. n \in Nat
      BY <1>1
    <3> HIDE DEF F, V, base, n
    <3> QED BY <3>1, <1>2, <1>3, FoldExists
  <2>2. ASSUME NEW s \in SUBSET (1..n), s # {}
        PROVE  F[<<g[s \ {Max(s)}], Max(s)>>] = Joined(t, g[s \ {Max(s)}], [i \in 1..n |-> i][Max(s)])
    <3>1. s \in SUBSET (0..n) /\ n \in Nat
      BY <1>1
    <3>2. Max(s) \in 1..n
      <4> HIDE DEF n
      <4> QED BY <2>2, <3>1, MaxIs
    <3>3. s \ {Max(s)} \in SUBSET (1..n)
      OBVIOUS
    <3>4. g[s \ {Max(s)}] \in V
      BY <3>3
    <3> HIDE DEF V, n
    <3> QED BY <3>2, <3>4
  <2>3. H(g)
    <3> HIDE DEF F, V, base, n
    <3> QED BY <2>1, <2>2 DEF Folds
  <2> HIDE DEF H
  <2> QED BY <2>3
<1>5. Lines(t) = (CHOOSE h : H(h))[1..n]
  BY <1>1 DEF Lines, FoldLeftDomain, FoldLeft, MapThenFoldSet, Joined
<1> DEFINE c == CHOOSE h : H(h)
<1>6. H(c)
  <2> HIDE DEF H
  <2> QED BY <1>4
<1> HIDE DEF c
<1>7. c[{}] = base
  BY <1>6
<1>8. ASSUME NEW k \in 1..n PROVE c[1..k] = Joined(t, c[1..(k - 1)], k)
  <2>1. 1..k \in SUBSET (1..n) /\ 1..k # {} /\ k \in Nat /\ k # 0
    BY <1>1
  <2>2. Max(1..k) = k /\ (1..k) \ {k} = 1..(k - 1)
    BY <2>1, MaxOfRange
  <2> HIDE DEF base, n
  <2>3. c[1..k] = Joined(t, c[(1..k) \ {Max(1..k)}], [i \in 1..n |-> i][Max(1..k)])
    BY <1>6, <2>1
  <2> QED BY <2>2, <2>3
<1>9. Made(c, n, V, F)
  <2> HIDE DEF V, n
  <2> QED BY <1>8 DEF Made
<1>10. PICK f \in [0..n -> V] : f[n] = c[1..n] /\ Stepwise(f, n, base, F)
  <2>1. n \in Nat
    BY <1>1
  <2> HIDE DEF V, n, F, base
  <2>2. InSteps(c, n, V, base, F)
    BY <2>1, <1>2, <1>3, <1>7, <1>9, FoldSteps
  <2> QED BY <2>2 DEF InSteps
<1>11. ASSUME NEW k \in 1..n PROVE f[k] = Joined(t, f[k - 1], k)
  <2>1. k - 1 \in 0..n
    BY <1>1
  <2>2. f[k - 1] \in V
    BY <2>1
  <2> HIDE DEF V, n
  <2> QED BY <1>10, <2>2 DEF Stepwise
<1>12. Lines(t) = f[n]
  BY <1>5, <1>10 DEF c
<1> HIDE DEF Joined
<1> QED BY <1>10, <1>11, <1>12 DEF Stepwise, Joins

LEMMA EmptyText == <<>> \in Line /\ Lines(<<>>) = << <<>> >>
<1>1. <<>> \in Line /\ Len(<<>>) = 0
  BY EmptySeq DEF Line
<1> QED BY <1>1, LinesSteps DEF Joins

LEMMA LinesType ==
  ASSUME NEW t \in Line
  PROVE  Lines(t) \in Seq(Line) /\ Lines(t) # <<>>
<1>1. Len(t) \in 0..Len(t)
  BY LenProperties DEF Line
<1> QED BY <1>1, LinesSteps

\* The next character of a text makes one more step.
LEMMA LinesNext ==
  ASSUME NEW t \in Line, NEW a \in Char
  PROVE  Lines(Append(t, a)) = Joined(Append(t, a), Lines(t), Len(t) + 1)
<1> DEFINE u == Append(t, a)  n == Len(t)
<1>1. u \in Line /\ Len(u) = n + 1 /\ n \in Nat /\ \A i \in 1..n : u[i] = t[i]
  BY AppendProperties, LenProperties DEF Line
<1> HIDE DEF u, n
<1>2. PICK f : Joins(f, t, n) /\ Lines(t) = f[n]
  BY LinesSteps DEF n
<1>3. PICK g : Joins(g, u, n + 1) /\ Lines(u) = g[n + 1]
  BY <1>1, LinesSteps
<1>4. ASSUME NEW k \in 1..n, NEW ls PROVE Joined(u, ls, k) = Joined(t, ls, k)
  <2>1. u[k] = t[k] /\ (k > 1 => u[k - 1] = t[k - 1])
    BY <1>1
  <2> QED BY <2>1 DEF Joined
<1> DEFINE S == {k \in Nat : k <= n => f[k] = g[k]}
<1>5. 0 \in S
  BY <1>2, <1>3 DEF Joins
<1>6. ASSUME NEW k \in Nat, k \in S PROVE k + 1 \in S
  <2>1. SUFFICES ASSUME k + 1 <= n PROVE f[k + 1] = g[k + 1]
    OBVIOUS
  <2>2. k + 1 \in 1..n /\ k + 1 \in 1..(n + 1) /\ (k + 1) - 1 = k /\ f[k] = g[k]
    BY <1>1, <1>6, <2>1
  <2>3. f[k + 1] = Joined(t, f[k], k + 1) /\ g[k + 1] = Joined(u, g[k], k + 1)
    BY <1>2, <1>3, <2>2 DEF Joins
  <2> QED BY <1>4, <2>2, <2>3
<1>7. n \in S
  <2>1. Nat \subseteq S
    <3> HIDE DEF S
    <3> QED BY <1>5, <1>6, Induct
  <2> QED BY <1>1, <2>1
<1>8. f[n] = g[n]
  BY <1>1, <1>7
<1>9. g[n + 1] = Joined(u, g[n], n + 1)
  <2>1. n + 1 \in 1..(n + 1) /\ (n + 1) - 1 = n
    BY <1>1
  <2> QED BY <1>3, <2>1 DEF Joins
<1> QED BY <1>2, <1>3, <1>8, <1>9 DEF u, n

-----------------------------------------------------------------------------
(* Putting sequences one after the other.                                  *)

\* g[i] is the first i of ss, flattened.
Flattens(g, ss, n) == \A i \in 1..n : g[i] = IF i = 1 THEN ss[i] ELSE g[i - 1] \o ss[i]

LEMMA FlattenSteps ==
  ASSUME NEW A, NEW ss \in Seq(Seq(A)), ss # <<>>
  PROVE  \E g \in [1..Len(ss) -> Seq(A)] :
            Flattens(g, ss, Len(ss)) /\ FlattenSeq(ss) = g[Len(ss)]
<1> DEFINE n == Len(ss)
           R(g, i) == IF i = 1 THEN ss[i] ELSE g[i - 1] \o ss[i]
           Upto(k) == \E g \in [1..n -> Seq(A)] : Flattens(g, ss, k)
           S == {k \in Nat : k <= n => Upto(k)}
           H(h) == h = [i \in 1..n |-> R(h, i)]
<1>1. n \in Nat /\ n # 0
  BY EmptySeq
<1>2. \A i \in 1..n : ss[i] \in Seq(A)
  BY ElementOfSeq
<1>3. 0 \in S
  <2> DEFINE g == [i \in 1..n |-> ss[i]]
  <2>1. g \in [1..n -> Seq(A)]
    BY <1>2
  <2>2. Flattens(g, ss, 0)
    BY DEF Flattens
  <2>3. Upto(0)
    BY <2>1, <2>2
  <2> HIDE DEF Upto
  <2> QED BY <2>3
<1> HIDE DEF n
<1>4. ASSUME NEW k \in Nat, k \in S PROVE k + 1 \in S
  <2>1. SUFFICES ASSUME k + 1 <= n PROVE Upto(k + 1)
    <3> HIDE DEF Upto
    <3> QED OBVIOUS
  <2>2. Upto(k)
    <3> HIDE DEF Upto
    <3> QED BY <1>1, <1>4, <2>1
  <2>3. PICK g \in [1..n -> Seq(A)] : Flattens(g, ss, k)
    BY <2>2
  <2> DEFINE x == R(g, k + 1)
             h == [g EXCEPT ![k + 1] = x]
  <2>4. x \in Seq(A)
    <3>1. k + 1 \in 1..n /\ ss[k + 1] \in Seq(A)
      BY <1>1, <1>2, <2>1
    <3>2. k # 0 => g[k] \in Seq(A)
      BY <1>1, <2>1
    <3>3. k # 0 => g[k] \o ss[k + 1] \in Seq(A)
      BY <3>1, <3>2, ConcatProperties
    <3> QED BY <3>1, <3>3
  <2>5. h \in [1..n -> Seq(A)]
    <3> HIDE DEF x
    <3> QED BY <2>4
  <2>6. \A i \in 1..n : h[i] = IF i = k + 1 THEN x ELSE g[i]
    <3> HIDE DEF x
    <3> QED OBVIOUS
  <2> HIDE DEF h
  <2>7. ASSUME NEW i \in 1..(k + 1) PROVE h[i] = R(h, i)
    <3>1. i \in 1..n /\ (i # 1 => i - 1 \in 1..n /\ i - 1 # k + 1)
      BY <1>1, <2>1
    <3>2. CASE i = k + 1
      BY <2>6, <3>1, <3>2
    <3>3. CASE i # k + 1
      <4>1. i \in 1..k
        BY <3>3
      <4>2. g[i] = R(g, i)
        BY <2>3, <4>1 DEF Flattens
      <4> QED BY <2>6, <3>1, <3>3, <4>2
    <3> QED BY <3>2, <3>3
  <2>8. Flattens(h, ss, k + 1)
    BY <2>7 DEF Flattens
  <2> QED BY <2>5, <2>8
<1>5. Upto(n)
  <2>1. Nat \subseteq S
    <3> HIDE DEF S
    <3> QED BY <1>3, <1>4, Induct
  <2> HIDE DEF Upto
  <2> QED BY <1>1, <2>1
<1>6. PICK g \in [1..n -> Seq(A)] : Flattens(g, ss, n)
  BY <1>5
<1>7. H(g)
  <2>1. \A i \in 1..n : g[i] = R(g, i)
    BY <1>6 DEF Flattens
  <2> QED BY <2>1
<1>8. FlattenSeq(ss) = (CHOOSE h : H(h))[n]
  BY <1>1 DEF FlattenSeq, n
<1> DEFINE c == CHOOSE h : H(h)
<1>9. H(c)
  <2> HIDE DEF H
  <2> QED BY <1>7
<1> HIDE DEF c
<1>10. Flattens(c, ss, n)
  BY <1>9 DEF Flattens
<1>11. c \in [1..n -> Seq(A)]
  <2> DEFINE Q == {k \in Nat : k + 1 \in 1..n => c[k + 1] \in Seq(A)}
  <2>1. 0 \in Q
    <3>1. 1 \in 1..n /\ 0 + 1 = 1
      BY <1>1
    <3>2. c[1] = ss[1]
      BY <1>10, <3>1 DEF Flattens
    <3> QED BY <1>2, <3>1, <3>2
  <2>2. ASSUME NEW k \in Nat, k \in Q PROVE k + 1 \in Q
    <3>1. SUFFICES ASSUME (k + 1) + 1 \in 1..n PROVE c[(k + 1) + 1] \in Seq(A)
      OBVIOUS
    <3>2. /\ k + 1 \in 1..n /\ (k + 1) + 1 # 1 /\ ((k + 1) + 1) - 1 = k + 1
          /\ c[k + 1] \in Seq(A)
      BY <1>1, <2>2, <3>1
    <3>3. c[(k + 1) + 1] = c[k + 1] \o ss[(k + 1) + 1]
      BY <1>10, <3>1, <3>2 DEF Flattens
    <3>4. ss[(k + 1) + 1] \in Seq(A)
      BY <1>2, <3>1
    <3> QED BY <3>2, <3>3, <3>4, ConcatProperties
  <2>3. Nat \subseteq Q
    <3> HIDE DEF Q
    <3> QED BY <2>1, <2>2, Induct
  <2>4. ASSUME NEW i \in 1..n PROVE c[i] \in Seq(A)
    <3>1. i - 1 \in Nat /\ (i - 1) + 1 = i
      BY <1>1
    <3>2. i - 1 \in Q
      <4> HIDE DEF Q
      <4> QED BY <2>3, <3>1
    <3> QED BY <3>1, <3>2
  <2>5. c = [i \in 1..n |-> c[i]]
    BY <1>9
  <2> QED BY <2>4, <2>5
<1> QED BY <1>8, <1>10, <1>11 DEF c, n

LEMMA FlattenNext ==
  ASSUME NEW A, NEW ss \in Seq(Seq(A)), NEW s \in Seq(A)
  PROVE  /\ FlattenSeq(ss) \in Seq(A)
         /\ FlattenSeq(Append(ss, s)) = FlattenSeq(ss) \o s
<1> DEFINE tt == Append(ss, s)  n == Len(ss)
<1>1. /\ tt \in Seq(Seq(A)) /\ tt # <<>> /\ Len(tt) = n + 1 /\ n \in Nat
      /\ (\A i \in 1..n : tt[i] = ss[i]) /\ tt[n + 1] = s
  BY AppendProperties, LenProperties
<1> HIDE DEF tt
<1>2. PICK g \in [1..(n + 1) -> Seq(A)] : Flattens(g, tt, n + 1) /\ FlattenSeq(tt) = g[n + 1]
  BY <1>1, FlattenSteps
<1>3. CASE ss = <<>>
  <2>1. FlattenSeq(ss) = <<>> /\ n = 0
    BY <1>3 DEF FlattenSeq
  <2>2. g[1] = s
    BY <1>1, <1>2, <2>1 DEF Flattens
  <2>3. <<>> \in Seq(A) /\ <<>> \o s = s
    BY EmptySeq, ConcatEmptySeq
  <2> QED BY <1>2, <2>1, <2>2, <2>3 DEF tt
<1>4. CASE ss # <<>>
  <2>1. PICK f \in [1..n -> Seq(A)] : Flattens(f, ss, n) /\ FlattenSeq(ss) = f[n]
    BY <1>4, FlattenSteps
  <2> DEFINE S == {k \in Nat : k + 1 \in 1..n => f[k + 1] = g[k + 1]}
  <2>2. n # 0
    BY <1>4, EmptySeq
  <2> HIDE DEF n
  <2>3. 0 \in S
    <3>1. 0 + 1 = 1 /\ (1 \in 1..n => 1 \in 1..(n + 1) /\ tt[1] = ss[1])
      BY <1>1
    <3>2. 1 \in 1..n => f[1] = ss[1] /\ g[1] = tt[1]
      BY <1>2, <2>1, <3>1 DEF Flattens
    <3> QED BY <3>1, <3>2
  <2>4. ASSUME NEW k \in Nat, k \in S PROVE k + 1 \in S
    <3>1. SUFFICES ASSUME (k + 1) + 1 \in 1..n PROVE f[(k + 1) + 1] = g[(k + 1) + 1]
      OBVIOUS
    <3>2. /\ k + 1 \in 1..n /\ (k + 1) + 1 # 1 /\ ((k + 1) + 1) - 1 = k + 1
          /\ (k + 1) + 1 \in 1..(n + 1) /\ f[k + 1] = g[k + 1]
      BY <1>1, <2>4, <3>1
    <3>3. f[(k + 1) + 1] = f[k + 1] \o ss[(k + 1) + 1]
      BY <2>1, <3>1, <3>2 DEF Flattens
    <3>4. g[(k + 1) + 1] = g[k + 1] \o tt[(k + 1) + 1]
      BY <1>2, <3>2 DEF Flattens
    <3>5. tt[(k + 1) + 1] = ss[(k + 1) + 1]
      BY <1>1, <3>1
    <3> QED BY <3>2, <3>3, <3>4, <3>5
  <2>5. Nat \subseteq S
    <3> HIDE DEF S
    <3> QED BY <2>3, <2>4, Induct
  <2>6. n - 1 \in Nat /\ (n - 1) + 1 = n /\ n \in 1..n /\ n + 1 \in 1..(n + 1)
    BY <1>1, <2>2
  <2>7. f[n] = g[n]
    BY <2>5, <2>6
  <2>8. g[n + 1] = g[n] \o tt[n + 1]
    <3>1. n + 1 # 1 /\ (n + 1) - 1 = n
      BY <1>1, <2>2
    <3> QED BY <1>2, <2>6, <3>1 DEF Flattens
  <2>9. f[n] \in Seq(A)
    BY <2>6
  <2> QED BY <1>1, <1>2, <2>1, <2>7, <2>8, <2>9 DEF tt
<1> QED BY <1>3, <1>4

-----------------------------------------------------------------------------
(* The parts of a line.                                                    *)

LEMMA Distinct ==
  /\ CR # LF /\ "=" # " " /\ "=" # "#" /\ "#" # " "
  /\ {"=", "#", " "} \cap {CR, LF} = {}
  /\ {"=", "#", " ", CR, LF} \subseteq Char
  /\ \A a \in Letter \cup Digit : a \in Char /\ a \notin {"=", "#", " ", CR, LF}
BY TextAssumption DEF CR, LF, Char

\* strings.TrimSpace: from the first to the last character that is no space.
Ink(s) == {i \in 1..Len(s) : s[i] \notin {" ", CR, LF}}

LEMMA TrimmedIs ==
  ASSUME NEW s \in Line
  PROVE  /\ Trimmed(s) \in Line
         /\ Ink(s) = {} => Trimmed(s) = <<>>
         /\ Ink(s) # {} => /\ Min(Ink(s)) \in Ink(s) /\ \A i \in Ink(s) : Min(Ink(s)) <= i
                           /\ Max(Ink(s)) \in Ink(s) /\ \A i \in Ink(s) : i <= Max(Ink(s))
                           /\ Trimmed(s) = SubSeq(s, Min(Ink(s)), Max(Ink(s)))
                           /\ Trimmed(s) # <<>> /\ Trimmed(s)[1] = s[Min(Ink(s))]
<1>1. DOMAIN s = 1..Len(s) /\ Len(s) \in Nat /\ \A i \in 1..Len(s) : s[i] \in Char
  BY LenProperties, ElementOfSeq DEF Line
<1>2. Trimmed(s) = IF Ink(s) = {} THEN <<>> ELSE SubSeq(s, Min(Ink(s)), Max(Ink(s)))
  BY <1>1 DEF Trimmed, Ink
<1>3. CASE Ink(s) = {}
  BY <1>2, <1>3, EmptyText
<1>4. CASE Ink(s) # {}
  <2> DEFINE a == Min(Ink(s))  z == Max(Ink(s))
  <2>1. Ink(s) \in SUBSET Nat /\ Ink(s) \in SUBSET (0..Len(s)) /\ Ink(s) \in SUBSET (1..Len(s))
    <3>1. Ink(s) \in SUBSET (1..Len(s))
      BY DEF Ink
    <3> QED BY <1>1, <3>1
  <2>2. a \in Ink(s) /\ \A i \in Ink(s) : a <= i
    BY <1>4, <2>1, MinIs
  <2>3. z \in Ink(s) /\ \A i \in Ink(s) : i <= z
    BY <1>1, <1>4, <2>1, MaxIs
  <2> HIDE DEF a, z
  <2>4. a \in 1..Len(s) /\ z \in 1..Len(s) /\ a <= z
    BY <2>1, <2>2, <2>3
  <2>5. \A i \in a..z : s[i] \in Char
    BY <1>1, <2>4
  <2>6. a \in Int /\ z \in Int
    BY <2>4
  <2>7. /\ SubSeq(s, a, z) \in Seq(Char)
        /\ Len(SubSeq(s, a, z)) = IF a <= z THEN z - a + 1 ELSE 0
        /\ \A i \in 1..(z - a + 1) : SubSeq(s, a, z)[i] = s[a + i - 1]
    BY <2>5, <2>6, SubSeqProperties
  <2>8. Len(SubSeq(s, a, z)) # 0 /\ 1 \in 1..(z - a + 1) /\ a + 1 - 1 = a
    BY <2>4, <2>7
  <2>9. SubSeq(s, a, z) # <<>> /\ SubSeq(s, a, z)[1] = s[a]
    BY <2>7, <2>8, EmptySeq
  <2> QED BY <1>2, <1>4, <2>2, <2>3, <2>7, <2>9 DEF a, z, Line
<1> QED BY <1>3, <1>4

\* strings.SplitN: at the first =.
LEMMA SplitIs ==
  ASSUME NEW s \in Line
  PROVE  /\ Split(s) \in 0..Len(s)
         /\ Split(s) = 0 => \A i \in 1..Len(s) : s[i] # "="
         /\ Split(s) # 0 => s[Split(s)] = "=" /\ \A i \in 1..Len(s) : s[i] = "=" => Split(s) <= i
<1> DEFINE I == {i \in 1..Len(s) : s[i] = "="}
<1>1. Split(s) = IF I # {} THEN Min(I) ELSE 0
  BY DEF Split, SelectInSeq
<1>2. Len(s) \in Nat
  BY LenProperties DEF Line
<1>3. I \in SUBSET Nat
  OBVIOUS
<1>4. I # {} => Min(I) \in I /\ \A i \in I : Min(I) <= i
  <2> HIDE DEF I
  <2> QED BY <1>3, MinIs
<1> QED BY <1>1, <1>2, <1>4

LEMMA PartsType ==
  ASSUME NEW s \in Line
  PROVE  KeyOf(s) \in Line /\ ValueOf(s) \in Line
<1> DEFINE n == Len(s)  x == Split(s)
<1>1. n \in Nat /\ x \in 0..n /\ \A i \in 1..n : s[i] \in Char
  BY SplitIs, LenProperties, ElementOfSeq DEF Line
<1> HIDE DEF n, x
<1>2. x - 1 \in Int /\ x + 1 \in Int /\ n \in Int /\ 1 \in Int
  BY <1>1
<1>3. (\A i \in 1..(x - 1) : s[i] \in Char) /\ \A i \in (x + 1)..n : s[i] \in Char
  BY <1>1
<1>4. SubSeq(s, 1, x - 1) \in Seq(Char) /\ SubSeq(s, x + 1, n) \in Seq(Char)
  BY <1>2, <1>3, SubSeqProperties
<1> QED BY <1>4, TrimmedIs DEF KeyOf, ValueOf, n, x, Line

-----------------------------------------------------------------------------
(* The result of a sequence of lines, one line at a time.                  *)

Rows == UNION {[D -> Line] : D \in SUBSET Line}
Result == [ok : BOOLEAN, rows : Rows]
Started == [ok |-> TRUE, rows |-> NoRows]

LEMMA RowsType ==
  /\ NoRows \in Rows /\ DOMAIN NoRows = {}
  /\ \A f \in Rows : DOMAIN f \in SUBSET Line /\ \A k \in DOMAIN f : f[k] \in Line
  /\ \A f : (DOMAIN f \in SUBSET Line /\ f \in [DOMAIN f -> Line]) => f \in Rows
<1>1. NoRows \in [{} -> Line] /\ DOMAIN NoRows = {} /\ {} \in SUBSET Line
  BY DEF NoRows
<1>2. NoRows \in Rows
  BY <1>1 DEF Rows
<1> QED BY <1>1, <1>2 DEF Rows

\* A row more: what out[key] = value makes of the rows.
Added(g, f, k, v) == /\ DOMAIN g = DOMAIN f \cup {k} /\ g[k] = v
                     /\ \A j \in DOMAIN f \ {k} : g[j] = f[j]

LEMMA RowAdded ==
  ASSUME NEW f \in Rows, NEW k \in Line, NEW v \in Line
  PROVE  Put(f, k, v) \in Rows /\ Added(Put(f, k, v), f, k, v)
<1> DEFINE g == Put(f, k, v)
<1>1. DOMAIN f \in SUBSET Line /\ \A j \in DOMAIN f : f[j] \in Line
  BY RowsType
<1>2. g = [j \in DOMAIN f \cup {k} |-> IF j = k THEN v ELSE f[j]]
  BY DEF Put
<1> HIDE DEF g
<1>3. DOMAIN g = DOMAIN f \cup {k} /\ \A j \in DOMAIN f \cup {k} : g[j] = IF j = k THEN v ELSE f[j]
  BY <1>2
<1>4. DOMAIN g \in SUBSET Line /\ g \in [DOMAIN g -> Line]
  BY <1>1, <1>2
<1>5. g \in Rows
  BY <1>4, RowsType
<1>6. Added(g, f, k, v)
  BY <1>3 DEF Added
<1> QED BY <1>5, <1>6 DEF g

LEMMA ParsedLineType ==
  ASSUME NEW r \in Result, NEW l \in Line
  PROVE  ParsedLine(r, l) \in Result
<1>1. Started \in Result /\ [ok |-> FALSE, rows |-> NoRows] \in Result
  BY RowsType DEF Result, Started
<1>2. Put(r.rows, KeyOf(l), ValueOf(l)) \in Rows
  BY PartsType, RowAdded DEF Result
<1>3. [r EXCEPT !.rows = Put(@, KeyOf(l), ValueOf(l))] \in Result
  <2> DEFINE f == Put(r.rows, KeyOf(l), ValueOf(l))
  <2> HIDE DEF f
  <2>1. f \in Rows
    BY <1>2 DEF f
  <2>2. [r EXCEPT !.rows = f] \in Result
    BY <2>1 DEF Result
  <2> QED BY <2>2 DEF f
<1> QED BY <1>1, <1>3 DEF ParsedLine

\* f[k] is the result of the first k of the n lines of t.
Parses(f, t, n) == f[0] = Started /\ \A k \in 1..n : f[k] = ParsedLine(f[k - 1], t[k])

LEMMA ParsedSteps ==
  ASSUME NEW t \in Seq(Line)
  PROVE  \E f \in [0..Len(t) -> Result] :
            Parses(f, t, Len(t)) /\ ParsedLines(t) = f[Len(t)]
<1> DEFINE n == Len(t)
           V == Result
           base == Started
           F == [p \in V \X (1..n) |-> ParsedLine(p[1], t[p[2]])]
           H(h) == h = [s \in SUBSET (1..n) |->
                          IF s = {} THEN base ELSE ParsedLine(h[s \ {Max(s)}], t[Max(s)])]
<1>1. n \in Nat /\ DOMAIN t = 1..n
  BY LenProperties
<1>2. base \in V
  BY RowsType DEF Result, Started
<1>3. F \in [V \X (1..n) -> V]
  BY ParsedLineType, ElementOfSeq
<1>4. \E h : H(h)
  <2>1. PICK g \in [SUBSET (1..n) -> V] : Folds(g, n, base, F)
    <3>1. n \in Nat
      BY <1>1
    <3> HIDE DEF F, V, base, n
    <3> QED BY <3>1, <1>2, <1>3, FoldExists
  <2>2. ASSUME NEW s \in SUBSET (1..n), s # {}
        PROVE  F[<<g[s \ {Max(s)}], Max(s)>>] = ParsedLine(g[s \ {Max(s)}], t[Max(s)])
    <3>1. s \in SUBSET (0..n) /\ n \in Nat
      BY <1>1
    <3>2. Max(s) \in 1..n
      <4> HIDE DEF n
      <4> QED BY <2>2, <3>1, MaxIs
    <3>3. s \ {Max(s)} \in SUBSET (1..n)
      OBVIOUS
    <3>4. g[s \ {Max(s)}] \in V
      BY <3>3
    <3> HIDE DEF V, n
    <3> QED BY <3>2, <3>4
  <2>3. H(g)
    <3> HIDE DEF F, V, base, n
    <3> QED BY <2>1, <2>2 DEF Folds
  <2> HIDE DEF H
  <2> QED BY <2>3
<1>5. ParsedLines(t) = (CHOOSE h : H(h))[1..n]
  BY <1>1 DEF ParsedLines, FoldLeft, MapThenFoldSet, Started
<1> DEFINE c == CHOOSE h : H(h)
<1>6. H(c)
  <2> HIDE DEF H
  <2> QED BY <1>4
<1> HIDE DEF c
<1>7. c[{}] = base
  BY <1>6
<1>8. ASSUME NEW k \in 1..n PROVE c[1..k] = ParsedLine(c[1..(k - 1)], t[k])
  <2>1. 1..k \in SUBSET (1..n) /\ 1..k # {} /\ k \in Nat /\ k # 0
    BY <1>1
  <2>2. Max(1..k) = k /\ (1..k) \ {k} = 1..(k - 1)
    BY <2>1, MaxOfRange
  <2> HIDE DEF base, n
  <2>3. c[1..k] = ParsedLine(c[(1..k) \ {Max(1..k)}], t[Max(1..k)])
    BY <1>6, <2>1
  <2> QED BY <2>2, <2>3
<1>9. Made(c, n, V, F)
  <2> HIDE DEF V, n
  <2> QED BY <1>8 DEF Made
<1>10. PICK f \in [0..n -> V] : f[n] = c[1..n] /\ Stepwise(f, n, base, F)
  <2>1. n \in Nat
    BY <1>1
  <2> HIDE DEF V, n, F, base
  <2>2. InSteps(c, n, V, base, F)
    BY <2>1, <1>2, <1>3, <1>7, <1>9, FoldSteps
  <2> QED BY <2>2 DEF InSteps
<1>11. ASSUME NEW k \in 1..n PROVE f[k] = ParsedLine(f[k - 1], t[k])
  <2>1. k - 1 \in 0..n
    BY <1>1
  <2>2. f[k - 1] \in V
    BY <2>1
  <2> HIDE DEF V, n
  <2> QED BY <1>10, <2>2 DEF Stepwise
<1>12. ParsedLines(t) = f[n]
  BY <1>5, <1>10 DEF c
<1> QED BY <1>10, <1>11, <1>12 DEF Stepwise, Parses

LEMMA NothingParsed == ParsedLines(<<>>) = Started
<1>1. <<>> \in Seq(Line) /\ Len(<<>>) = 0
  BY EmptySeq
<1> QED BY <1>1, ParsedSteps DEF Parses

\* The next line makes one more step.
LEMMA ParsedNext ==
  ASSUME NEW t \in Seq(Line), NEW a \in Line
  PROVE  /\ ParsedLines(t) \in Result
         /\ ParsedLines(Append(t, a)) = ParsedLine(ParsedLines(t), a)
<1> DEFINE u == Append(t, a)  n == Len(t)
<1>1. u \in Seq(Line) /\ Len(u) = n + 1 /\ n \in Nat /\ (\A i \in 1..n : u[i] = t[i]) /\ u[n + 1] = a
  BY AppendProperties, LenProperties
<1> HIDE DEF u, n
<1>2. PICK f \in [0..n -> Result] : Parses(f, t, n) /\ ParsedLines(t) = f[n]
  BY ParsedSteps DEF n
<1>3. PICK g \in [0..(n + 1) -> Result] : Parses(g, u, n + 1) /\ ParsedLines(u) = g[n + 1]
  BY <1>1, ParsedSteps
<1>4. \A k \in 1..n : u[k] = t[k]
  BY <1>1
<1> DEFINE S == {k \in Nat : k <= n => f[k] = g[k]}
<1>5. 0 \in S
  BY <1>2, <1>3 DEF Parses
<1>6. ASSUME NEW k \in Nat, k \in S PROVE k + 1 \in S
  <2>1. SUFFICES ASSUME k + 1 <= n PROVE f[k + 1] = g[k + 1]
    OBVIOUS
  <2>2. k + 1 \in 1..n /\ k + 1 \in 1..(n + 1) /\ (k + 1) - 1 = k /\ f[k] = g[k]
    <3>1. n \in Nat
      BY <1>1
    <3>2. k <= n /\ k + 1 \in 1..n /\ k + 1 \in 1..(n + 1) /\ (k + 1) - 1 = k
      BY <2>1, <3>1
    <3> QED BY <1>6, <3>2
  <2>3. f[k + 1] = ParsedLine(f[k], t[k + 1]) /\ g[k + 1] = ParsedLine(g[k], u[k + 1])
    BY <1>2, <1>3, <2>2 DEF Parses
  <2> QED BY <1>4, <2>2, <2>3
<1>7. n \in S
  <2>1. Nat \subseteq S
    <3> HIDE DEF S
    <3> QED BY <1>5, <1>6, Induct
  <2> QED BY <1>1, <2>1
<1>8. f[n] = g[n]
  BY <1>1, <1>7
<1>9. g[n + 1] = ParsedLine(g[n], a)
  <2>1. n + 1 \in 1..(n + 1) /\ (n + 1) - 1 = n
    BY <1>1
  <2> QED BY <1>1, <1>3, <2>1 DEF Parses
<1>10. f[n] \in Result
  BY <1>1
<1> QED BY <1>2, <1>3, <1>8, <1>9, <1>10 DEF u, n

\* The lines that are no comment and not blank.
Taken(ls) == {x \in 1..Len(ls) : ~Skipped(ls[x])}

\* Line x of ls is the last of its key.
LastOf(x, ls) == \A y \in Taken(ls) : KeyOf(ls[y]) = KeyOf(ls[x]) => y <= x

\* What the result r of the lines ls is: an error if one of them is wrong, the
\* value of its last line for each key otherwise.
Answers(r, ls) ==
    /\ r.ok <=> \A x \in Taken(ls) : ~Wrong(ls[x])
    /\ r.ok => /\ IsFiniteSet(DOMAIN r.rows)
               /\ \A x \in Taken(ls) : KeyOf(ls[x]) \in DOMAIN r.rows
               /\ \A k \in DOMAIN r.rows : \E x \in Taken(ls) :
                     KeyOf(ls[x]) = k /\ r.rows[k] = ValueOf(ls[x]) /\ LastOf(x, ls)

LEMMA AnswersNext ==
  ASSUME NEW ls \in Seq(Line), NEW l \in Line, NEW r \in Result, Answers(r, ls)
  PROVE  Answers(ParsedLine(r, l), Append(ls, l))
<1> DEFINE u == Append(ls, l)  n == Len(ls)
<1>1. u \in Seq(Line) /\ Len(u) = n + 1 /\ n \in Nat /\ (\A i \in 1..n : u[i] = ls[i]) /\ u[n + 1] = l
  BY AppendProperties, LenProperties
<1>2. r.ok \in BOOLEAN /\ r.rows \in Rows /\ r = [ok |-> r.ok, rows |-> r.rows]
  BY DEF Result
<1> HIDE DEF u
<1>3. /\ \A x \in Taken(ls) : x \in Taken(u) /\ x \in 1..n /\ u[x] = ls[x]
      /\ \A x \in Taken(u) : x \in Taken(ls) \/ (x = n + 1 /\ ~Skipped(l))
      /\ ~Skipped(l) => n + 1 \in Taken(u)
  <2>1. \A x \in 1..(n + 1) : x \in 1..n \/ x = n + 1
    BY <1>1
  <2>2. \A x \in 1..n : x \in 1..(n + 1)
    BY <1>1
  <2>3. n + 1 \in 1..(n + 1)
    BY <1>1
  <2> HIDE DEF n
  <2> QED BY <1>1, <2>1, <2>2, <2>3 DEF Taken, n
<1> HIDE DEF n
<1>4. CASE Skipped(l)
  <2>1. Taken(u) = Taken(ls) /\ \A x \in Taken(ls) : u[x] = ls[x]
    BY <1>3, <1>4
  <2>2. ParsedLine(r, l) = r
    BY <1>4 DEF ParsedLine
  <2>3. ASSUME NEW x \in Taken(ls), LastOf(x, ls) PROVE LastOf(x, u)
    BY <2>1, <2>3 DEF LastOf
  <2>4. Answers(r, u)
    BY <2>1, <2>3 DEF Answers
  <2> QED BY <2>2, <2>4 DEF u
<1>5. CASE ~Skipped(l) /\ ~r.ok
  <2>1. ParsedLine(r, l) = r
    BY <1>5 DEF ParsedLine
  <2>2. PICK x \in Taken(ls) : Wrong(ls[x])
    BY <1>5 DEF Answers
  <2>3. x \in Taken(u) /\ Wrong(u[x])
    BY <1>3, <2>2
  <2>4. Answers(r, u)
    BY <1>5, <2>3 DEF Answers
  <2> QED BY <2>1, <2>4 DEF u
<1>6. CASE ~Skipped(l) /\ r.ok /\ Wrong(l)
  <2>1. ParsedLine(r, l) = [ok |-> FALSE, rows |-> NoRows]
    BY <1>6 DEF ParsedLine
  <2>2. n + 1 \in Taken(u) /\ Wrong(u[n + 1])
    BY <1>1, <1>3, <1>6
  <2>3. Answers([ok |-> FALSE, rows |-> NoRows], u)
    BY <2>2 DEF Answers
  <2> QED BY <2>1, <2>3 DEF u
<1>7. CASE ~Skipped(l) /\ r.ok /\ ~Wrong(l)
  <2> DEFINE f == Put(r.rows, KeyOf(l), ValueOf(l))  q == [ok |-> TRUE, rows |-> f]
  <2>1. ParsedLine(r, l) = q
    <3>1. ParsedLine(r, l) = [r EXCEPT !.rows = f]
      BY <1>7 DEF ParsedLine
    <3>2. [r EXCEPT !.rows = f] = [ok |-> r.ok, rows |-> f]
      <4> HIDE DEF f
      <4> QED BY <1>2
    <3>3. r.ok = TRUE
      BY <1>2, <1>7
    <3> QED BY <3>1, <3>2, <3>3
  <2>2. KeyOf(l) \in Line /\ ValueOf(l) \in Line
    BY PartsType
  <2>3. /\ DOMAIN f = DOMAIN r.rows \cup {KeyOf(l)}
        /\ f[KeyOf(l)] = ValueOf(l) /\ \A j \in DOMAIN r.rows \ {KeyOf(l)} : f[j] = r.rows[j]
    <3>1. r.rows \in Rows
      BY <1>2
    <3>2. Added(f, r.rows, KeyOf(l), ValueOf(l))
      BY <2>2, <3>1, RowAdded
    <3> HIDE DEF f
    <3> QED BY <3>2 DEF Added
  <2> HIDE DEF f
  <2>4. \A x \in Taken(ls) : ~Wrong(ls[x])
    BY <1>7 DEF Answers
  <2>5. \A x \in Taken(u) : ~Wrong(u[x])
    BY <1>1, <1>3, <1>7, <2>4
  <2>6. IsFiniteSet(DOMAIN f)
    <3>1. IsFiniteSet(DOMAIN r.rows)
      BY <1>7 DEF Answers
    <3> QED BY <2>3, <3>1, FS_AddElement
  <2>7. ASSUME NEW x \in Taken(u) PROVE KeyOf(u[x]) \in DOMAIN f
    <3>1. CASE x \in Taken(ls)
      BY <1>3, <1>7, <2>3, <3>1 DEF Answers
    <3>2. CASE x = n + 1
      BY <1>1, <2>3, <3>2
    <3> QED BY <1>3, <3>1, <3>2
  <2>8. ASSUME NEW k \in DOMAIN f
        PROVE  \E x \in Taken(u) : KeyOf(u[x]) = k /\ f[k] = ValueOf(u[x]) /\ LastOf(x, u)
    <3>1. CASE k = KeyOf(l)
      <4>1. \A y \in Taken(u) : y <= n + 1
        BY <1>1 DEF Taken
      <4>2. LastOf(n + 1, u)
        BY <4>1 DEF LastOf
      <4>3. n + 1 \in Taken(u)
        BY <1>3, <1>7
      <4> QED BY <1>1, <2>3, <3>1, <4>2, <4>3
    <3>2. CASE k # KeyOf(l)
      <4>1. k \in DOMAIN r.rows /\ f[k] = r.rows[k]
        BY <2>3, <3>2
      <4>2. PICK x \in Taken(ls) : KeyOf(ls[x]) = k /\ r.rows[k] = ValueOf(ls[x]) /\ LastOf(x, ls)
        BY <1>7, <4>1 DEF Answers
      <4>3. ASSUME NEW y \in Taken(u), KeyOf(u[y]) = KeyOf(u[x]) PROVE y <= x
        <5>1. KeyOf(u[y]) = k
          BY <1>3, <4>2, <4>3
        <5>2. y # n + 1
          BY <1>1, <3>2, <5>1
        <5>3. y \in Taken(ls) /\ u[y] = ls[y]
          BY <1>3, <5>2
        <5> QED BY <4>2, <5>1, <5>3 DEF LastOf
      <4>4. LastOf(x, u)
        BY <4>3 DEF LastOf
      <4> QED BY <1>3, <4>1, <4>2, <4>4
    <3> QED BY <3>1, <3>2
  <2>9. Answers(q, u)
    BY <2>5, <2>6, <2>7, <2>8 DEF Answers
  <2> QED BY <2>1, <2>9 DEF u
<1> QED BY <1>2, <1>4, <1>5, <1>6, <1>7

LEMMA LinesAnswered ==
  ASSUME NEW ls \in Seq(Line)
  PROVE  ParsedLines(ls) \in Result /\ Answers(ParsedLines(ls), ls)
<1> DEFINE T == {t \in Seq(Line) : ParsedLines(t) \in Result /\ Answers(ParsedLines(t), t)}
<1>1. <<>> \in T
  <2>1. <<>> \in Seq(Line) /\ Taken(<<>>) = {}
    BY EmptySeq DEF Taken
  <2>2. Started \in Result /\ Started.ok = TRUE /\ DOMAIN Started.rows = {}
    BY RowsType DEF Started, Result
  <2>3. Answers(Started, <<>>)
    BY <2>1, <2>2, FS_EmptySet DEF Answers
  <2> QED BY <2>1, <2>2, <2>3, NothingParsed
<1>2. ASSUME NEW t \in Seq(Line), t \in T, NEW l \in Line PROVE Append(t, l) \in T
  <2>1. ParsedLines(Append(t, l)) = ParsedLine(ParsedLines(t), l)
    BY ParsedNext
  <2>2. Append(t, l) \in Seq(Line)
    BY AppendProperties
  <2>3. ParsedLine(ParsedLines(t), l) \in Result
    BY <1>2, ParsedLineType
  <2>4. Answers(ParsedLine(ParsedLines(t), l), Append(t, l))
    BY <1>2, AnswersNext
  <2> QED BY <2>1, <2>2, <2>3, <2>4
<1>3. Seq(Line) \subseteq T
  <2> HIDE DEF T
  <2> QED BY <1>1, <1>2, SeqInduct
<1> QED BY <1>3

-----------------------------------------------------------------------------
(* Where the lines are in their text.                                      *)

\* The stretch of t between i and j.
Between(t, i, j) == /\ i \in Ends(t) /\ j \in Ends(t) /\ i < j
                    /\ \A x \in Ends(t) : x <= i \/ x >= j

LEMMA EndsType ==
  ASSUME NEW t \in Line
  PROVE  /\ Len(t) \in Nat /\ Ends(t) \subseteq 0..(Len(t) + 1)
         /\ 0 \in Ends(t) /\ Len(t) + 1 \in Ends(t)
         /\ \A i \in 1..Len(t) : i \in Ends(t) <=> t[i] \in {CR, LF}
<1>1. Len(t) \in Nat /\ DOMAIN t = 1..Len(t)
  BY LenProperties DEF Line
<1> QED BY <1>1 DEF Ends

LEMMA SpansAre ==
  ASSUME NEW t \in Line
  PROVE  /\ \A i, j : <<i, j>> \in Spans(t) <=> Between(t, i, j)
         /\ \A l \in Spans(t) : l = <<l[1], l[2]>> /\ l[1] \in Nat /\ l[2] \in Nat
<1>1. Ends(t) \subseteq Nat
  BY EndsType
<1>2. ASSUME NEW i, NEW j PROVE <<i, j>> \in Spans(t) <=> Between(t, i, j)
  BY DEF Spans, Between
<1>3. ASSUME NEW l \in Spans(t) PROVE l = <<l[1], l[2]>> /\ l[1] \in Nat /\ l[2] \in Nat
  BY <1>1 DEF Spans
<1> QED BY <1>2, <1>3

LEMMA EndsNext ==
  ASSUME NEW t \in Line, NEW a \in Char
  PROVE  /\ a \in {CR, LF} => Ends(Append(t, a)) = Ends(t) \cup {Len(t) + 2}
         /\ a \notin {CR, LF} => Ends(Append(t, a)) = (Ends(t) \ {Len(t) + 1}) \cup {Len(t) + 2}
<1> DEFINE u == Append(t, a)  n == Len(t)
<1>1. u \in Line /\ Len(u) = n + 1 /\ n \in Nat /\ (\A i \in 1..n : u[i] = t[i]) /\ u[n + 1] = a
  BY AppendProperties, LenProperties DEF Line
<1>2. DOMAIN t = 1..n /\ DOMAIN u = 1..(n + 1)
  BY <1>1, LenProperties DEF Line
<1> HIDE DEF u
<1>3. Ends(t) = {0, n + 1} \cup {i \in 1..n : t[i] \in {CR, LF}}
  BY <1>2 DEF Ends
<1>4. Ends(u) = {0, (n + 1) + 1} \cup {i \in 1..(n + 1) : u[i] \in {CR, LF}}
  BY <1>1, <1>2 DEF Ends
<1> HIDE DEF n
<1>5. \A i \in 1..(n + 1) : i \in 1..n \/ i = n + 1
  BY <1>1
<1>6. (\A i \in 1..n : i \in 1..(n + 1) /\ i # n + 1) /\ n + 1 \in 1..(n + 1) /\ (n + 1) + 1 = n + 2 /\ n + 1 # 0
  BY <1>1
<1>7. {i \in 1..(n + 1) : u[i] \in {CR, LF}}
        = {i \in 1..n : t[i] \in {CR, LF}} \cup (IF a \in {CR, LF} THEN {n + 1} ELSE {})
  BY <1>1, <1>5, <1>6
<1>8. CASE a \in {CR, LF}
  BY <1>3, <1>4, <1>6, <1>7, <1>8 DEF u, n
<1>9. CASE a \notin {CR, LF}
  BY <1>3, <1>4, <1>6, <1>7, <1>9 DEF u, n
<1> QED BY <1>8, <1>9

\* A character after a line end starts a stretch, any other lengthens the last.
LEMMA BetweenNext ==
  ASSUME NEW t \in Line, NEW a \in Char, NEW i \in Nat, NEW j \in Nat
  PROVE  Between(Append(t, a), i, j) <=>
            IF a \in {CR, LF}
            THEN Between(t, i, j) \/ (i = Len(t) + 1 /\ j = Len(t) + 2)
            ELSE \/ Between(t, i, j) /\ j # Len(t) + 1
                 \/ j = Len(t) + 2 /\ Between(t, i, Len(t) + 1)
<1> DEFINE n == Len(t)  E == Ends(t)
<1>1. n \in Nat /\ E \subseteq 0..(n + 1) /\ n + 1 \in E /\ n + 2 \notin E
  BY EndsType
<1>2. \A x \in E : x \in Nat /\ x <= n + 1
  BY <1>1
<1> HIDE DEF n, E
<1>3. CASE a \in {CR, LF}
  <2>1. Ends(Append(t, a)) = E \cup {n + 2}
    BY <1>3, EndsNext DEF n, E
  <2>2. Between(Append(t, a), i, j) => Between(t, i, j) \/ (i = n + 1 /\ j = n + 2)
    BY <1>1, <1>2, <2>1 DEF Between, E
  <2>3. Between(t, i, j) => Between(Append(t, a), i, j)
    BY <1>1, <1>2, <2>1 DEF Between, E
  <2>4. Between(Append(t, a), n + 1, n + 2)
    <3>1. \A x \in E \cup {n + 2} : x <= n + 1 \/ x >= n + 2
      BY <1>1, <1>2
    <3>2. n + 1 \in E \cup {n + 2} /\ n + 2 \in E \cup {n + 2} /\ n + 1 < n + 2
      BY <1>1
    <3> QED BY <2>1, <3>1, <3>2 DEF Between
  <2> QED BY <1>3, <2>2, <2>3, <2>4 DEF n
<1>4. CASE a \notin {CR, LF}
  <2>1. Ends(Append(t, a)) = (E \ {n + 1}) \cup {n + 2}
    BY <1>4, EndsNext DEF n, E
  <2>2. Between(Append(t, a), i, j) => \/ Between(t, i, j) /\ j # n + 1
                                       \/ j = n + 2 /\ Between(t, i, n + 1)
    BY <1>1, <1>2, <2>1 DEF Between, E
  <2>3. Between(t, i, j) /\ j # n + 1 => Between(Append(t, a), i, j)
    BY <1>1, <1>2, <2>1 DEF Between, E
  <2>4. Between(t, i, n + 1) => Between(Append(t, a), i, n + 2)
    BY <1>1, <1>2, <2>1 DEF Between, E
  <2> QED BY <1>4, <2>2, <2>3, <2>4 DEF n
<1> QED BY <1>3, <1>4

\* Line x of ls is the characters of t between b[x] and e[x]; what is between
\* two ends and is no line is empty: it is what a CRLF has inside.
Cuts(t, ls, b, e) ==
    LET m == Len(ls) IN
    /\ b \in [1..m -> Nat] /\ e \in [1..m -> Nat]
    /\ \A x \in 1..m : Between(t, b[x], e[x])
    /\ e[m] = Len(t) + 1
    /\ \A x, y \in 1..m : x < y => e[x] <= b[y]
    /\ \A x \in 1..m : /\ Len(ls[x]) = e[x] - b[x] - 1
                       /\ \A i \in 1..Len(ls[x]) : ls[x][i] = t[b[x] + i]
    /\ \A i, j \in Nat : Between(t, i, j) => j = i + 1 \/ \E x \in 1..m : i = b[x] /\ j = e[x]

\* A character that ends no line is one more of the last.
LEMMA CutsInk ==
  ASSUME NEW t \in Line, NEW a \in Char, a \notin {CR, LF},
         NEW ls \in Seq(Line), ls # <<>>, NEW b, NEW e, Cuts(t, ls, b, e),
         NEW us \in Seq(Line), Len(us) = Len(ls),
         us[Len(ls)] = Append(ls[Len(ls)], a),
         \A x \in 1..Len(ls) : x # Len(ls) => us[x] = ls[x]
  PROVE  Cuts(Append(t, a), us, b, [e EXCEPT ![Len(ls)] = Len(t) + 2])
<1> DEFINE u == Append(t, a)  n == Len(t)  m == Len(ls)  f == [e EXCEPT ![m] = n + 2]
<1>1. u \in Line /\ Len(u) = n + 1 /\ n \in Nat /\ (\A i \in 1..n : u[i] = t[i]) /\ u[n + 1] = a
  BY AppendProperties, LenProperties DEF Line
<1>2. m \in Nat /\ m # 0 /\ m \in 1..m
  BY EmptySeq
<1>3. \A x \in 1..m : ls[x] \in Line /\ Len(ls[x]) \in Nat
  BY ElementOfSeq, LenProperties DEF Line
<1>4. /\ b \in [1..m -> Nat] /\ e \in [1..m -> Nat]
      /\ (\A x \in 1..m : Between(t, b[x], e[x])) /\ e[m] = n + 1
      /\ (\A x, y \in 1..m : x < y => e[x] <= b[y])
      /\ (\A x \in 1..m : /\ Len(ls[x]) = e[x] - b[x] - 1
                          /\ \A i \in 1..Len(ls[x]) : ls[x][i] = t[b[x] + i])
      /\ \A i, j \in Nat : Between(t, i, j) => j = i + 1 \/ \E x \in 1..m : i = b[x] /\ j = e[x]
  BY DEF Cuts
<1>5. /\ Len(us[m]) = Len(ls[m]) + 1
      /\ \A i \in 1..Len(ls[m]) : us[m][i] = ls[m][i]
      /\ us[m][Len(ls[m]) + 1] = a
  <2>1. ls[m] \in Seq(Char) /\ us[m] = Append(ls[m], a)
    BY <1>2, <1>3 DEF Line
  <2> HIDE DEF m
  <2> QED BY <2>1, AppendProperties
<1>6. \A x \in 1..m : x # m => us[x] = ls[x]
  OBVIOUS
<1>7. n \in Nat /\ n + 2 \in Nat
  BY <1>1
<1>8. f \in [1..m -> Nat] /\ f[m] = n + 2 /\ \A x \in 1..m : x # m => f[x] = e[x]
  <2> HIDE DEF m, n
  <2> QED BY <1>2, <1>4, <1>7
<1>9. \A i, j \in Nat : Between(u, i, j) <=> \/ Between(t, i, j) /\ j # n + 1
                                             \/ j = n + 2 /\ Between(t, i, n + 1)
  BY BetweenNext
<1>10. \A x \in 1..m : x # m => e[x] <= b[m] /\ b[m] < n + 1
  <2>1. b[m] < e[m]
    BY <1>2, <1>4 DEF Between
  <2>2. \A x \in 1..m : x # m => x < m
    BY <1>2
  <2> QED BY <1>2, <1>4, <2>1, <2>2
<1> HIDE DEF u, n, m, f
<1>11. ASSUME NEW x \in 1..m PROVE Between(u, b[x], f[x])
  <2>1. b[x] \in Nat /\ e[x] \in Nat /\ f[x] \in Nat /\ Between(t, b[x], e[x])
    BY <1>4, <1>8
  <2>2. CASE x = m
    BY <1>4, <1>8, <1>9, <2>1, <2>2
  <2>3. CASE x # m
    <3>1. f[x] = e[x] /\ e[x] # n + 1
      <4>1. b[m] \in Nat
        BY <1>2, <1>4
      <4>2. e[x] <= b[m] /\ b[m] < n + 1
        BY <1>10, <2>3
      <4> QED BY <1>7, <1>8, <2>1, <2>3, <4>1, <4>2
    <3> QED BY <1>9, <2>1, <3>1
  <2> QED BY <2>2, <2>3
<1>12. ASSUME NEW x \in 1..m, NEW y \in 1..m, x < y PROVE f[x] <= b[y]
  <2>1. x # m
    BY <1>2, <1>12
  <2> QED BY <1>4, <1>8, <1>12, <2>1
<1>13. ASSUME NEW x \in 1..m
       PROVE  Len(us[x]) = f[x] - b[x] - 1 /\ \A i \in 1..Len(us[x]) : us[x][i] = u[b[x] + i]
  <2>1. b[x] \in Nat /\ e[x] \in Nat /\ b[x] < e[x] /\ e[x] <= n + 1
    <3>1. b[x] \in Nat /\ e[x] \in Nat /\ Between(t, b[x], e[x])
      BY <1>4
    <3>2. b[x] < e[x] /\ e[x] \in Ends(t)
      BY <3>1 DEF Between
    <3>3. e[x] \in 0..(n + 1)
      BY <3>2, EndsType DEF n
    <3> QED BY <1>1, <3>1, <3>2, <3>3
  <2>2. /\ Len(ls[x]) \in Nat /\ Len(ls[x]) = e[x] - b[x] - 1
        /\ \A i \in 1..Len(ls[x]) : ls[x][i] = t[b[x] + i]
    BY <1>3, <1>4
  <2>3. \A i \in 1..Len(ls[x]) : b[x] + i \in 1..n
    BY <1>1, <2>1, <2>2
  <2>4. \A i \in 1..Len(ls[x]) : ls[x][i] = u[b[x] + i]
    BY <1>1, <2>2, <2>3
  <2>5. CASE x = m
    <3>1. Len(us[x]) = Len(ls[x]) + 1 /\ f[x] = n + 2 /\ e[x] = n + 1
      BY <1>4, <1>5, <1>8, <2>5
    <3>2. Len(us[x]) = f[x] - b[x] - 1 /\ b[x] + (Len(ls[x]) + 1) = n + 1
      <4> DEFINE p == b[x]  q == f[x]  k == Len(ls[x])  v == Len(us[x])
      <4>1. p \in Nat /\ q = n + 2 /\ k = (n + 1) - p - 1 /\ v = k + 1
        BY <2>1, <2>2, <3>1
      <4> HIDE DEF p, q, k, v
      <4>2. v = q - p - 1 /\ p + (k + 1) = n + 1
        BY <1>7, <4>1
      <4> QED BY <4>2 DEF p, q, k, v
    <3>3. ASSUME NEW i \in 1..Len(us[x]) PROVE us[x][i] = u[b[x] + i]
      <4>1. i \in 1..Len(ls[x]) \/ i = Len(ls[x]) + 1
        BY <2>2, <3>1
      <4>2. CASE i \in 1..Len(ls[x])
        BY <1>5, <2>4, <2>5, <4>2
      <4>3. CASE i = Len(ls[x]) + 1
        BY <1>1, <1>5, <2>5, <3>2, <4>3
      <4> QED BY <4>1, <4>2, <4>3
    <3> QED BY <3>2, <3>3
  <2>6. CASE x # m
    BY <1>6, <1>8, <2>2, <2>4, <2>6
  <2> QED BY <2>5, <2>6
<1>14. ASSUME NEW i \in Nat, NEW j \in Nat, Between(u, i, j)
       PROVE  j = i + 1 \/ \E x \in 1..m : i = b[x] /\ j = f[x]
  <2>1. CASE Between(t, i, j) /\ j # n + 1
    <3>1. j = i + 1 \/ \E x \in 1..m : i = b[x] /\ j = e[x]
      BY <1>4, <2>1
    <3>2. ASSUME NEW x \in 1..m, i = b[x], j = e[x] PROVE j = f[x]
      BY <1>4, <1>8, <2>1, <3>2
    <3> QED BY <3>1, <3>2
  <2>2. CASE j = n + 2 /\ Between(t, i, n + 1)
    <3>1. Between(t, b[m], n + 1) /\ b[m] \in Nat
      BY <1>2, <1>4
    <3>2. i = b[m]
      <4>1. i \in Ends(t) /\ b[m] \in Ends(t) /\ i < n + 1 /\ b[m] < n + 1
            /\ (\A x \in Ends(t) : x <= i \/ x >= n + 1)
            /\ (\A x \in Ends(t) : x <= b[m] \/ x >= n + 1)
        BY <2>2, <3>1 DEF Between
      <4>2. b[m] <= i /\ i <= b[m]
        BY <1>1, <3>1, <4>1
      <4> QED BY <3>1, <4>2
    <3> QED BY <1>2, <1>8, <2>2, <3>2
  <2> QED BY <1>9, <1>14, <2>1, <2>2
<1>15. Len(us) = m /\ f[m] = Len(u) + 1
  BY <1>1, <1>8 DEF m
<1>16. Cuts(u, us, b, f)
  BY <1>4, <1>8, <1>11, <1>12, <1>13, <1>14, <1>15 DEF Cuts
<1> QED BY <1>16 DEF u, f, m, n

\* A line end that is no LF after a CR starts the next line.
LEMMA CutsEnd ==
  ASSUME NEW t \in Line, NEW a \in {CR, LF},
         NEW ls \in Seq(Line), ls # <<>>, NEW b, NEW e, Cuts(t, ls, b, e)
  PROVE  \E c, f : Cuts(Append(t, a), Append(ls, <<>>), c, f)
<1> DEFINE u == Append(t, a)  n == Len(t)  m == Len(ls)  us == Append(ls, <<>>)
           c == [x \in 1..(m + 1) |-> IF x = m + 1 THEN n + 1 ELSE b[x]]
           f == [x \in 1..(m + 1) |-> IF x = m + 1 THEN n + 2 ELSE e[x]]
<1>1. u \in Line /\ Len(u) = n + 1 /\ n \in Nat /\ (\A i \in 1..n : u[i] = t[i]) /\ a \in Char
  <2>1. a \in Char
    BY Distinct
  <2> QED BY <2>1, AppendProperties, LenProperties DEF Line
<1>2. m \in Nat /\ m # 0 /\ m \in 1..m
  BY EmptySeq
<1>3. \A x \in 1..m : ls[x] \in Line /\ Len(ls[x]) \in Nat
  BY ElementOfSeq, LenProperties DEF Line
<1>4. /\ b \in [1..m -> Nat] /\ e \in [1..m -> Nat]
      /\ (\A x \in 1..m : Between(t, b[x], e[x])) /\ e[m] = n + 1
      /\ (\A x, y \in 1..m : x < y => e[x] <= b[y])
      /\ (\A x \in 1..m : /\ Len(ls[x]) = e[x] - b[x] - 1
                          /\ \A i \in 1..Len(ls[x]) : ls[x][i] = t[b[x] + i])
      /\ \A i, j \in Nat : Between(t, i, j) => j = i + 1 \/ \E x \in 1..m : i = b[x] /\ j = e[x]
  BY DEF Cuts
<1>5. /\ Len(us) = m + 1 /\ us[m + 1] = <<>> /\ Len(<<>>) = 0
      /\ \A x \in 1..m : us[x] = ls[x]
  BY EmptyText, EmptySeq, AppendProperties
<1>6. /\ c \in [1..(m + 1) -> Nat] /\ f \in [1..(m + 1) -> Nat]
      /\ c[m + 1] = n + 1 /\ f[m + 1] = n + 2 /\ \A x \in 1..m : c[x] = b[x] /\ f[x] = e[x]
  <2>1. \A x \in 1..(m + 1) : x \in 1..m \/ x = m + 1
    BY <1>2
  <2>2. m + 1 \in 1..(m + 1) /\ n + 1 \in Nat /\ n + 2 \in Nat /\ \A x \in 1..m : x # m + 1 /\ x \in 1..(m + 1)
    BY <1>1, <1>2
  <2>3. \A x \in 1..m : b[x] \in Nat /\ e[x] \in Nat
    BY <1>4
  <2> HIDE DEF m, n
  <2> QED BY <2>1, <2>2, <2>3
<1>7. \A i, j \in Nat : Between(u, i, j) <=> Between(t, i, j) \/ (i = n + 1 /\ j = n + 2)
  BY <1>1, BetweenNext
<1>8. \A x \in 1..m : b[x] \in Nat /\ e[x] \in Nat /\ b[x] < e[x] /\ e[x] <= n + 1
  <2> TAKE x \in 1..m
  <2>1. b[x] \in Nat /\ e[x] \in Nat /\ Between(t, b[x], e[x])
    BY <1>4
  <2>2. b[x] < e[x] /\ e[x] \in Ends(t)
    BY <2>1 DEF Between
  <2>3. e[x] \in 0..(n + 1)
    BY <2>2, EndsType
  <2> QED BY <1>1, <2>1, <2>2, <2>3
<1>9. \A x \in 1..(m + 1) : x \in 1..m \/ x = m + 1
  BY <1>2
<1> HIDE DEF u, n, m, c, f, us
<1>10. ASSUME NEW x \in 1..(m + 1) PROVE Between(u, c[x], f[x])
  <2>1. CASE x \in 1..m
    BY <1>4, <1>6, <1>7, <1>8, <2>1
  <2>2. CASE x = m + 1
    BY <1>1, <1>6, <1>7, <2>2
  <2> QED BY <1>9, <2>1, <2>2
<1>11. ASSUME NEW x \in 1..(m + 1), NEW y \in 1..(m + 1), x < y PROVE f[x] <= c[y]
  <2>1. x \in 1..m
    BY <1>2, <1>11
  <2>2. CASE y \in 1..m
    BY <1>4, <1>6, <1>11, <2>1, <2>2
  <2>3. CASE y = m + 1
    BY <1>6, <1>8, <2>1, <2>3
  <2> QED BY <1>9, <2>2, <2>3
<1>12. ASSUME NEW x \in 1..(m + 1)
       PROVE  Len(us[x]) = f[x] - c[x] - 1 /\ \A i \in 1..Len(us[x]) : us[x][i] = u[c[x] + i]
  <2>1. CASE x \in 1..m
    <3>1. /\ Len(ls[x]) \in Nat /\ Len(ls[x]) = e[x] - b[x] - 1
          /\ \A i \in 1..Len(ls[x]) : ls[x][i] = t[b[x] + i]
      BY <1>3, <1>4, <2>1
    <3>2. b[x] \in Nat /\ e[x] \in Nat /\ b[x] < e[x] /\ e[x] <= n + 1
      BY <1>8, <2>1
    <3>3. \A i \in 1..Len(ls[x]) : b[x] + i \in 1..n
      BY <1>1, <3>1, <3>2
    <3>4. \A i \in 1..Len(ls[x]) : ls[x][i] = u[b[x] + i]
      BY <1>1, <3>1, <3>3
    <3> QED BY <1>5, <1>6, <2>1, <3>1, <3>4
  <2>2. CASE x = m + 1
    <3>1. Len(us[x]) = 0 /\ f[x] - c[x] - 1 = 0
      BY <1>1, <1>5, <1>6, <2>2
    <3> QED BY <3>1
  <2> QED BY <1>9, <2>1, <2>2
<1>13. ASSUME NEW i \in Nat, NEW j \in Nat, Between(u, i, j)
       PROVE  j = i + 1 \/ \E x \in 1..(m + 1) : i = c[x] /\ j = f[x]
  <2>1. CASE i = n + 1 /\ j = n + 2
    BY <1>1, <2>1
  <2>2. CASE Between(t, i, j)
    <3>1. j = i + 1 \/ \E x \in 1..m : i = b[x] /\ j = e[x]
      BY <1>4, <2>2
    <3>2. \A x \in 1..m : x \in 1..(m + 1)
      BY <1>2
    <3> QED BY <1>6, <3>1, <3>2
  <2> QED BY <1>7, <1>13, <2>1, <2>2
<1>14. f[m + 1] = Len(u) + 1
  BY <1>1, <1>6
<1>15. Cuts(u, us, c, f)
  BY <1>5, <1>6, <1>10, <1>11, <1>12, <1>13, <1>14 DEF Cuts
<1> QED BY <1>15 DEF u, us

\* The LF of a CRLF: the line the CR has started starts after it.
LEMMA CutsLF ==
  ASSUME NEW t \in Line, Len(t) > 0, t[Len(t)] = CR,
         NEW ls \in Seq(Line), ls # <<>>, NEW b, NEW e, Cuts(t, ls, b, e)
  PROVE  \E c, f : Cuts(Append(t, LF), ls, c, f)
<1> DEFINE u == Append(t, LF)  n == Len(t)  m == Len(ls)
           c == [b EXCEPT ![m] = n + 1]
           f == [e EXCEPT ![m] = n + 2]
<1>1. u \in Line /\ Len(u) = n + 1 /\ n \in Nat /\ (\A i \in 1..n : u[i] = t[i]) /\ LF \in Char
  <2>1. LF \in Char
    BY Distinct
  <2> QED BY <2>1, AppendProperties, LenProperties DEF Line
<1>2. m \in Nat /\ m # 0 /\ m \in 1..m
  BY EmptySeq
<1>3. \A x \in 1..m : ls[x] \in Line /\ Len(ls[x]) \in Nat
  BY ElementOfSeq, LenProperties DEF Line
<1>4. /\ b \in [1..m -> Nat] /\ e \in [1..m -> Nat]
      /\ (\A x \in 1..m : Between(t, b[x], e[x])) /\ e[m] = n + 1
      /\ (\A x, y \in 1..m : x < y => e[x] <= b[y])
      /\ (\A x \in 1..m : /\ Len(ls[x]) = e[x] - b[x] - 1
                          /\ \A i \in 1..Len(ls[x]) : ls[x][i] = t[b[x] + i])
      /\ \A i, j \in Nat : Between(t, i, j) => j = i + 1 \/ \E x \in 1..m : i = b[x] /\ j = e[x]
  BY DEF Cuts
<1>5. b[m] = n
  <2>1. n \in 1..n /\ n \in Ends(t)
    BY <1>1, EndsType
  <2>2. Between(t, b[m], n + 1) /\ b[m] \in Nat
    BY <1>2, <1>4
  <2>3. b[m] < n + 1 /\ (n <= b[m] \/ n >= n + 1)
    BY <2>1, <2>2 DEF Between
  <2> QED BY <1>1, <2>2, <2>3
<1>6. /\ c \in [1..m -> Nat] /\ f \in [1..m -> Nat]
      /\ c[m] = n + 1 /\ f[m] = n + 2 /\ \A x \in 1..m : x # m => c[x] = b[x] /\ f[x] = e[x]
  <2>1. n + 1 \in Nat /\ n + 2 \in Nat
    BY <1>1
  <2> HIDE DEF m, n
  <2> QED BY <1>2, <1>4, <2>1
<1>7. \A i, j \in Nat : Between(u, i, j) <=> Between(t, i, j) \/ (i = n + 1 /\ j = n + 2)
  BY <1>1, BetweenNext
<1>8. \A x \in 1..m : b[x] \in Nat /\ e[x] \in Nat /\ b[x] < e[x] /\ e[x] <= n + 1
  <2> TAKE x \in 1..m
  <2>1. b[x] \in Nat /\ e[x] \in Nat /\ Between(t, b[x], e[x])
    BY <1>4
  <2>2. b[x] < e[x] /\ e[x] \in Ends(t)
    BY <2>1 DEF Between
  <2>3. e[x] \in 0..(n + 1)
    BY <2>2, EndsType
  <2> QED BY <1>1, <2>1, <2>2, <2>3
<1> HIDE DEF u, n, m, c, f
<1>9. ASSUME NEW x \in 1..m PROVE Between(u, c[x], f[x])
  <2>1. CASE x # m
    BY <1>4, <1>6, <1>7, <1>8, <2>1
  <2>2. CASE x = m
    BY <1>1, <1>6, <1>7, <2>2
  <2> QED BY <2>1, <2>2
<1>10. ASSUME NEW x \in 1..m, NEW y \in 1..m, x < y PROVE f[x] <= c[y]
  <2>1. x # m
    BY <1>2, <1>10
  <2>2. CASE y # m
    BY <1>4, <1>6, <1>10, <2>1, <2>2
  <2>3. CASE y = m
    BY <1>1, <1>6, <1>8, <2>1, <2>3
  <2> QED BY <2>2, <2>3
<1>11. ASSUME NEW x \in 1..m
       PROVE  Len(ls[x]) = f[x] - c[x] - 1 /\ \A i \in 1..Len(ls[x]) : ls[x][i] = u[c[x] + i]
  <2>1. CASE x # m
    <3>1. /\ Len(ls[x]) \in Nat /\ Len(ls[x]) = e[x] - b[x] - 1
          /\ \A i \in 1..Len(ls[x]) : ls[x][i] = t[b[x] + i]
      BY <1>3, <1>4, <2>1
    <3>2. b[x] \in Nat /\ e[x] \in Nat /\ b[x] < e[x] /\ e[x] <= n + 1
      BY <1>8, <2>1
    <3>3. \A i \in 1..Len(ls[x]) : b[x] + i \in 1..n
      BY <1>1, <3>1, <3>2
    <3>4. \A i \in 1..Len(ls[x]) : ls[x][i] = u[b[x] + i]
      BY <1>1, <3>1, <3>3
    <3> QED BY <1>6, <2>1, <3>1, <3>4
  <2>2. CASE x = m
    <3>1. Len(ls[x]) = (n + 1) - n - 1
      BY <1>2, <1>4, <1>5, <2>2
    <3>2. Len(ls[x]) = 0 /\ f[x] - c[x] - 1 = 0
      BY <1>1, <1>6, <2>2, <3>1
    <3> QED BY <3>2
  <2> QED BY <2>1, <2>2
<1>12. ASSUME NEW i \in Nat, NEW j \in Nat, Between(u, i, j)
       PROVE  j = i + 1 \/ \E x \in 1..m : i = c[x] /\ j = f[x]
  <2>1. CASE i = n + 1 /\ j = n + 2
    BY <1>1, <2>1
  <2>2. CASE Between(t, i, j)
    <3>1. j = i + 1 \/ \E x \in 1..m : i = b[x] /\ j = e[x]
      BY <1>4, <2>2
    <3>2. ASSUME NEW x \in 1..m, i = b[x], j = e[x] PROVE j = i + 1 \/ (i = c[x] /\ j = f[x])
      BY <1>4, <1>5, <1>6, <3>2
    <3> QED BY <3>1, <3>2
  <2> QED BY <1>7, <1>12, <2>1, <2>2
<1>13. f[m] = Len(u) + 1
  BY <1>1, <1>6
<1>14. Cuts(u, ls, c, f)
  BY <1>6, <1>9, <1>10, <1>11, <1>12, <1>13 DEF Cuts, m
<1> QED BY <1>14 DEF u

\* The lines of every text are where Cuts has them.
LEMMA TextCut ==
  ASSUME NEW t \in Line
  PROVE  \E b, e : Cuts(t, Lines(t), b, e)
<1> DEFINE T == {s \in Line : \E b, e : Cuts(s, Lines(s), b, e)}
<1>1. <<>> \in T
  <2> DEFINE b == [x \in 1..1 |-> 0]  e == [x \in 1..1 |-> 1]  ls == << <<>> >>
  <2>1. <<>> \in Line /\ Len(<<>>) = 0 /\ Lines(<<>>) = ls /\ Len(ls) = 1 /\ ls[1] = <<>>
    BY EmptyText, EmptySeq
  <2>2. Ends(<<>>) = {0, 1}
    BY DEF Ends
  <2>3. Between(<<>>, 0, 1)
    BY <2>2 DEF Between
  <2>4. ASSUME NEW i \in Nat, NEW j \in Nat, Between(<<>>, i, j) PROVE i = 0 /\ j = 1
    BY <2>2, <2>4 DEF Between
  <2>5. \A x \in 1..1 : x = 1
    OBVIOUS
  <2>6. b \in [1..1 -> Nat] /\ e \in [1..1 -> Nat] /\ b[1] = 0 /\ e[1] = 1
    OBVIOUS
  <2> HIDE DEF b, e, ls
  <2>7. \A x \in 1..1 : Len(ls[x]) = e[x] - b[x] - 1
    BY <2>1, <2>5, <2>6
  <2>8. \A x \in 1..1 : \A i \in 1..Len(ls[x]) : ls[x][i] = <<>>[b[x] + i]
    BY <2>1, <2>5
  <2>9. \A x, y \in 1..1 : ~(x < y)
    OBVIOUS
  <2>10. \A x \in 1..1 : Between(<<>>, b[x], e[x])
    BY <2>3, <2>5, <2>6
  <2>11. Cuts(<<>>, ls, b, e)
    BY <2>1, <2>4, <2>6, <2>7, <2>8, <2>9, <2>10 DEF Cuts
  <2> QED BY <2>1, <2>11
<1>2. ASSUME NEW s \in Line, s \in T, NEW a \in Char PROVE Append(s, a) \in T
  <2> DEFINE u == Append(s, a)  n == Len(s)  ls == Lines(s)
  <2>1. u \in Line /\ n \in Nat /\ (\A i \in 1..n : u[i] = s[i]) /\ u[n + 1] = a
    BY AppendProperties, LenProperties DEF Line
  <2>2. ls \in Seq(Line) /\ ls # <<>>
    BY LinesType
  <2>3. Lines(u) = Joined(u, ls, n + 1)
    BY LinesNext
  <2>4. PICK b, e : Cuts(s, ls, b, e)
    BY <1>2
  <2>5. (n + 1) - 1 = n /\ (n + 1 > 1 <=> n > 0)
    BY <2>1
  <2> SUFFICES \E c, f : Cuts(u, Lines(u), c, f)
    BY <2>1
  <2> HIDE DEF u, n, ls
  <2>6. CASE a = LF /\ n > 0 /\ s[n] = CR
    <3>1. n \in 1..n
      BY <2>1, <2>6
    <3>2. u[n] = CR
      BY <2>1, <2>6, <3>1
    <3>3. Lines(u) = ls
      BY <2>1, <2>3, <2>5, <2>6, <3>2 DEF Joined
    <3>4. \E c, f : Cuts(Append(s, LF), ls, c, f)
      BY <2>2, <2>4, <2>6, CutsLF DEF n
    <3> QED BY <2>6, <3>3, <3>4 DEF u
  <2>7. CASE a \in {CR, LF} /\ ~(a = LF /\ n > 0 /\ s[n] = CR)
    <3>1. n > 0 => u[n] = s[n]
      BY <2>1
    <3>2. Lines(u) = Append(ls, <<>>)
      BY <2>1, <2>3, <2>5, <2>7, <3>1 DEF Joined
    <3>3. \E c, f : Cuts(Append(s, a), Append(ls, <<>>), c, f)
      BY <2>2, <2>4, <2>7, CutsEnd
    <3> QED BY <3>2, <3>3 DEF u
  <2>8. CASE a \notin {CR, LF}
    <3> DEFINE m == Len(ls)  l == Append(ls[m], a)  us == [ls EXCEPT ![m] = l]
    <3>1. Lines(u) = us
      BY <2>1, <2>3, <2>8 DEF Joined
    <3>2. m \in 1..m
      BY <2>2, EmptySeq
    <3>3. ls[m] \in Line
      BY <2>2, <3>2, ElementOfSeq
    <3>4. l \in Line
      BY <3>3, AppendProperties DEF Line
    <3>5. us \in Seq(Line) /\ Len(us) = m /\ us[m] = l /\ \A x \in 1..m : x # m => us[x] = ls[x]
      <4> HIDE DEF l, m
      <4>1. us \in Seq(Line) /\ Len(us) = Len(ls) /\ \A x \in 1..Len(ls) : us[x] = IF x = m THEN l ELSE ls[x]
        BY <2>2, <3>2, <3>4, ExceptSeq DEF m
      <4> QED BY <3>2, <4>1 DEF m
    <3> HIDE DEF us
    <3>6. Cuts(Append(s, a), us, b, [e EXCEPT ![Len(ls)] = Len(s) + 2])
      BY <2>2, <2>4, <2>8, <3>5, CutsInk
    <3> QED BY <3>1, <3>6 DEF u
  <2> QED BY <2>6, <2>7, <2>8
<1>3. Seq(Char) \subseteq T
  <2>1. \A s \in Seq(Char) : s \in T => \A a \in Char : Append(s, a) \in T
    <3> HIDE DEF T
    <3> QED BY <1>2 DEF Line
  <2> HIDE DEF T
  <2> QED BY <1>1, <2>1, SeqInduct
<1> QED BY <1>3 DEF Line

-----------------------------------------------------------------------------
(* A line and its stretch of the text.                                     *)

\* Line l is what t has from b + 1 to e - 1.
Copies(t, b, e, l) == /\ t \in Line /\ l \in Line /\ b \in Nat /\ e = b + Len(l) + 1
                      /\ Between(t, b, e)
                      /\ \A i \in 1..Len(l) : l[i] = t[b + i]

LEMMA LeastIs ==
  ASSUME NEW S \in SUBSET Nat, NEW x \in S, \A y \in S : x <= y
  PROVE  Min(S) = x
<1>1. S # {}
  OBVIOUS
<1>2. Min(S) \in S /\ \A y \in S : Min(S) <= y
  BY <1>1, MinIs
<1>3. Min(S) <= x /\ x <= Min(S) /\ Min(S) \in Nat
  BY <1>2
<1> QED BY <1>3

LEMMA CopyBounds ==
  ASSUME NEW t, NEW b \in Nat, NEW e, NEW l, Copies(t, b, e, l)
  PROVE  /\ Len(l) \in Nat /\ Len(t) \in Nat /\ b + Len(l) <= Len(t)
         /\ \A i \in 1..Len(l) : l[i] \in Char /\ l[i] \notin {CR, LF} /\ b + i \in 1..Len(t)
         /\ \A i \in 1..Len(t) : t[i] \in Char
<1>1. Len(l) \in Nat /\ Len(t) \in Nat /\ b \in Nat /\ e = b + Len(l) + 1 /\ t \in Line /\ l \in Line
  BY LenProperties DEF Copies, Line
<1>2. (\A i \in 1..Len(l) : l[i] \in Char) /\ \A i \in 1..Len(t) : t[i] \in Char
  BY <1>1, ElementOfSeq DEF Line
<1>3. e \in Ends(t) /\ \A x \in Ends(t) : x <= b \/ x >= e
  BY DEF Copies, Between
<1>4. e <= Len(t) + 1
  BY <1>1, <1>3, EndsType
<1>5. ASSUME NEW i \in 1..Len(l) PROVE l[i] \notin {CR, LF} /\ b + i \in 1..Len(t)
  <2>1. b + i \in 1..Len(t) /\ ~(b + i <= b) /\ ~(b + i >= e)
    BY <1>1, <1>4
  <2>2. b + i \notin Ends(t)
    BY <1>3, <2>1
  <2>3. t[b + i] \notin {CR, LF}
    BY <1>1, <2>1, <2>2, EndsType
  <2> QED BY <2>1, <2>3 DEF Copies
<1> QED BY <1>1, <1>2, <1>4, <1>5

LEMMA CopySubSeq ==
  ASSUME NEW t, NEW b \in Nat, NEW e, NEW l, Copies(t, b, e, l),
         NEW p \in Nat, p # 0, NEW q \in Nat, q <= Len(l)
  PROVE  SubSeq(t, b + p, b + q) = SubSeq(l, p, q)
<1>1. b \in Nat /\ \A i \in 1..Len(l) : l[i] = t[b + i]
  BY DEF Copies
<1>2. /\ Len(l) \in Nat /\ Len(t) \in Nat /\ b + Len(l) <= Len(t)
      /\ (\A i \in 1..Len(l) : l[i] \in Char) /\ \A i \in 1..Len(t) : t[i] \in Char
  BY CopyBounds
<1>3. (\A i \in (b + p)..(b + q) : t[i] \in Char) /\ \A i \in p..q : l[i] \in Char
  BY <1>1, <1>2
<1>4. b + p \in Int /\ b + q \in Int /\ p \in Int /\ q \in Int
  BY <1>1
<1> DEFINE v == SubSeq(t, b + p, b + q)  w == SubSeq(l, p, q)
<1>5. /\ v \in Seq(Char) /\ Len(v) = (IF b + p <= b + q THEN (b + q) - (b + p) + 1 ELSE 0)
      /\ \A i \in 1..((b + q) - (b + p) + 1) : v[i] = t[(b + p) + i - 1]
  BY <1>3, <1>4, SubSeqProperties
<1>6. /\ w \in Seq(Char) /\ Len(w) = (IF p <= q THEN q - p + 1 ELSE 0)
      /\ \A i \in 1..(q - p + 1) : w[i] = l[p + i - 1]
  BY <1>3, <1>4, SubSeqProperties
<1> HIDE DEF v, w
<1>7. (b + q) - (b + p) + 1 = q - p + 1 /\ (b + p <= b + q <=> p <= q)
  BY <1>1
<1>8. Len(v) = Len(w)
  BY <1>5, <1>6, <1>7
<1>9. ASSUME NEW i \in 1..Len(v) PROVE v[i] = w[i]
  <2>1. i \in 1..(q - p + 1)
    BY <1>1, <1>5
  <2>2. p + i - 1 \in 1..Len(l) /\ (b + p) + i - 1 = b + (p + i - 1)
    BY <1>1, <1>2, <2>1
  <2>3. l[p + i - 1] = t[b + (p + i - 1)]
    BY <1>1, <2>2
  <2> QED BY <1>5, <1>6, <1>7, <2>1, <2>2, <2>3
<1> QED BY <1>5, <1>6, <1>8, <1>9, SeqEqual DEF v, w

LEMMA CopyEntry ==
  ASSUME NEW t, NEW b \in Nat, NEW e, NEW l, Copies(t, b, e, l)
  PROVE  <<b, e>> \in Entries(t) <=> ~Skipped(l)
<1> DEFINE n == Len(l)
           ink == {i \in (b + 1)..(e - 1) : t[i] # " "}
<1>1. b \in Nat /\ e = b + n + 1 /\ t \in Line /\ l \in Line /\ \A i \in 1..n : l[i] = t[b + i]
  BY DEF Copies
<1>2. n \in Nat /\ \A i \in 1..n : l[i] \notin {CR, LF}
  BY CopyBounds
<1>3. <<b, e>> \in Spans(t)
  BY SpansAre DEF Copies
<1>4. <<b, e>> \in Entries(t) <=> ink # {} /\ t[Min(ink)] # "#"
  BY <1>3 DEF Entries
<1>5. Ink(l) = {i \in 1..n : l[i] # " "}
  BY <1>2 DEF Ink
<1>6. \A i \in Ink(l) : i \in 1..n /\ b + i \in ink /\ t[b + i] = l[i]
  <2> HIDE DEF n
  <2>1. \A i \in 1..n : b + i \in (b + 1)..(e - 1)
    BY <1>1, <1>2
  <2> QED BY <1>1, <1>5, <2>1
<1>7. \A j \in ink : j \in Nat /\ j - b \in Ink(l)
  <2> TAKE j \in ink
  <2>1. j \in (b + 1)..(e - 1) /\ t[j] # " "
    OBVIOUS
  <2> HIDE DEF n, ink
  <2>2. j \in Nat /\ j - b \in 1..n /\ b + (j - b) = j
    <3>1. e = b + n + 1 /\ n \in Nat /\ j \in (b + 1)..(e - 1)
      BY <1>1, <1>2, <2>1
    <3> QED BY <3>1
  <2>3. l[j - b] = t[j]
    <3>1. l[j - b] = t[b + (j - b)]
      BY <1>1, <2>2
    <3> QED BY <2>2, <3>1
  <2> QED BY <1>5, <2>1, <2>2, <2>3
<1> HIDE DEF n, ink
<1>8. CASE Ink(l) = {}
  <2>1. ink = {}
    BY <1>7, <1>8
  <2> QED BY <1>1, <1>4, <1>8, <2>1, TrimmedIs DEF Skipped
<1>9. CASE Ink(l) # {}
  <2> DEFINE m == Min(Ink(l))
  <2>1. /\ m \in Ink(l) /\ \A i \in Ink(l) : m <= i
        /\ Trimmed(l) # <<>> /\ Trimmed(l)[1] = l[m]
    BY <1>1, <1>9, TrimmedIs
  <2> HIDE DEF m
  <2>2. b + m \in ink /\ t[b + m] = l[m] /\ m \in 1..n
    BY <1>6, <2>1
  <2>3. ASSUME NEW j \in ink PROVE b + m <= j
    <3>1. j \in Nat /\ m <= j - b
      BY <1>7, <2>1
    <3> QED BY <1>1, <2>2, <3>1
  <2>4. ink \in SUBSET Nat
    BY <1>7
  <2>5. Min(ink) = b + m
    BY <2>2, <2>3, <2>4, LeastIs
  <2> QED BY <1>4, <2>1, <2>2, <2>5 DEF Skipped
<1> QED BY <1>8, <1>9

LEMMA CopyParts ==
  ASSUME NEW t, NEW b \in Nat, NEW e, NEW l, Copies(t, b, e, l)
  PROVE  /\ IsEntry(t, <<b, e>>) <=> ~Wrong(l)
         /\ ~Wrong(l) => /\ EntryKey(t, <<b, e>>) = KeyOf(l)
                         /\ EntryValue(t, <<b, e>>) = ValueOf(l)
<1> DEFINE n == Len(l)  x == Split(l)
<1>1. b \in Nat /\ e = b + n + 1 /\ t \in Line /\ l \in Line /\ \A i \in 1..n : l[i] = t[b + i]
  BY DEF Copies
<1>2. n \in Nat
  BY CopyBounds
<1>3. /\ x \in 0..n /\ (x = 0 => \A i \in 1..n : l[i] # "=")
      /\ (x # 0 => l[x] = "=" /\ \A i \in 1..n : l[i] = "=" => x <= i)
  BY <1>1, SplitIs
<1> HIDE DEF n, x
<1>4. IsEntry(t, <<b, e>>) <=> (\E i \in (b + 1)..(e - 1) : t[i] = "=") /\ IsKey(EntryKey(t, <<b, e>>))
  BY DEF IsEntry
<1>5. Wrong(l) <=> x = 0 \/ ~IsKey(KeyOf(l))
  BY DEF Wrong, x
<1>6. ASSUME NEW i \in (b + 1)..(e - 1)
      PROVE  i \in Nat /\ i - b \in 1..n /\ b + (i - b) = i /\ t[i] = l[i - b]
  <2>1. i \in Nat /\ i - b \in 1..n /\ b + (i - b) = i
    BY <1>1, <1>2
  <2> QED BY <1>1, <2>1
<1>7. ASSUME NEW i \in Nat, i # 0, NEW j \in Nat, j <= n
      PROVE  SubSeq(t, b + i, b + j) = SubSeq(l, i, j)
  BY <1>7, CopySubSeq DEF n
<1>8. CASE x = 0
  BY <1>3, <1>4, <1>5, <1>6, <1>8
<1>9. CASE x # 0
  <2> DEFINE P == {i \in (b + 1)..e : i = e \/ t[i] = "="}
             Q == {i \in (b + 1)..(e - 1) : t[i] = "="}
  <2>1. x \in 1..n /\ b + x \in (b + 1)..(e - 1) /\ b + x \in (b + 1)..e
    BY <1>1, <1>2, <1>3, <1>9
  <2>2. t[b + x] = "="
    BY <1>1, <1>3, <1>9, <2>1
  <2>3. b + x \in Q /\ b + x \in P
    BY <2>1, <2>2
  <2>4. ASSUME NEW i \in Q PROVE i \in Nat /\ b + x <= i
    <3>1. i \in Nat /\ i - b \in 1..n /\ l[i - b] = "="
      BY <1>6
    <3>2. x <= i - b
      BY <1>3, <1>9, <3>1
    <3> QED BY <1>1, <2>1, <3>1, <3>2
  <2>5. ASSUME NEW i \in P PROVE i \in Nat /\ b + x <= i
    <3>1. CASE i = e
      BY <1>1, <1>2, <2>1, <3>1
    <3>2. CASE i # e
      <4>1. i \in (b + 1)..(e - 1)
        BY <1>1, <1>2, <3>2
      <4>2. i \in Q
        BY <3>2, <4>1
      <4> QED BY <2>4, <4>2
    <3> QED BY <3>1, <3>2
  <2>6. EntryKey(t, <<b, e>>) = Trimmed(SubSeq(t, b + 1, Min(P) - 1))
    BY DEF EntryKey
  <2>7. EntryValue(t, <<b, e>>) = SubSeq(t, Min(Q) + 1, e - 1)
    BY DEF EntryValue
  <2> HIDE DEF P, Q
  <2>8. Min(P) = b + x /\ Min(Q) = b + x
    <3>1. P \in SUBSET Nat /\ Q \in SUBSET Nat
      BY <2>4, <2>5
    <3> QED BY <2>3, <2>4, <2>5, <3>1, LeastIs
  <2>9. EntryKey(t, <<b, e>>) = KeyOf(l)
    <3>1. x - 1 \in Nat /\ x - 1 <= n /\ Min(P) - 1 = b + (x - 1)
      BY <1>1, <1>2, <2>1, <2>8
    <3>2. SubSeq(t, b + 1, b + (x - 1)) = SubSeq(l, 1, x - 1)
      <4>1. 1 \in Nat /\ 1 # 0
        OBVIOUS
      <4> QED BY <1>7, <3>1, <4>1
    <3> QED BY <2>6, <3>1, <3>2 DEF KeyOf, x
  <2>10. EntryValue(t, <<b, e>>) = ValueOf(l)
    <3>1. x + 1 \in Nat /\ x + 1 # 0 /\ n \in Nat /\ n <= n /\ Min(Q) + 1 = b + (x + 1) /\ e - 1 = b + n
      BY <1>1, <1>2, <2>1, <2>8
    <3>2. SubSeq(t, b + (x + 1), b + n) = SubSeq(l, x + 1, n)
      BY <1>7, <3>1
    <3> QED BY <2>7, <3>1, <3>2 DEF ValueOf, x, n
  <2>11. \E i \in (b + 1)..(e - 1) : t[i] = "="
    BY <2>1, <2>2
  <2> QED BY <1>4, <1>5, <1>9, <2>9, <2>10, <2>11
<1> QED BY <1>8, <1>9

-----------------------------------------------------------------------------
(* ParsedAsWritten.                                                        *)

\* The lines and the entries of a text are the same stretches of it.
LEMMA TextEntries ==
  ASSUME NEW t \in Line, NEW ls, ls = Lines(t), NEW b, NEW e, Cuts(t, ls, b, e)
  PROVE  /\ \A x \in 1..Len(ls) : Copies(t, b[x], e[x], ls[x]) /\ b[x] \in Nat /\ e[x] \in Nat
         /\ \A x \in Taken(ls) : x \in 1..Len(ls) /\ <<b[x], e[x]>> \in Entries(t)
         /\ \A l \in Entries(t) : \E x \in Taken(ls) : l = <<b[x], e[x]>>
<1> DEFINE m == Len(ls)
<1>1. ls \in Seq(Line) /\ \A x \in 1..m : ls[x] \in Line
  BY LinesType, ElementOfSeq
<1>2. ASSUME NEW x \in 1..m PROVE Copies(t, b[x], e[x], ls[x]) /\ b[x] \in Nat /\ e[x] \in Nat
  <2>1. b[x] \in Nat /\ e[x] \in Nat /\ Between(t, b[x], e[x]) /\ ls[x] \in Line
    BY <1>1 DEF Cuts
  <2>2. Len(ls[x]) \in Nat
    BY <2>1, LenProperties DEF Line
  <2>3. Len(ls[x]) = e[x] - b[x] - 1 /\ \A i \in 1..Len(ls[x]) : ls[x][i] = t[b[x] + i]
    BY DEF Cuts
  <2>4. e[x] = b[x] + Len(ls[x]) + 1
    BY <2>1, <2>2, <2>3
  <2> QED BY <2>1, <2>3, <2>4 DEF Copies
<1>3. ASSUME NEW x \in 1..m PROVE <<b[x], e[x]>> \in Entries(t) <=> ~Skipped(ls[x])
  BY <1>2, CopyEntry
<1>4. ASSUME NEW l \in Entries(t) PROVE \E x \in Taken(ls) : l = <<b[x], e[x]>>
  <2>1. l \in Spans(t) /\ {i \in (l[1] + 1)..(l[2] - 1) : t[i] # " "} # {}
    BY DEF Entries
  <2>2. PICK p \in Nat, q \in Nat : l = <<p, q>> /\ Between(t, p, q)
    <3>1. l = <<l[1], l[2]>> /\ l[1] \in Nat /\ l[2] \in Nat
      BY <2>1, SpansAre
    <3> DEFINE p == l[1]  q == l[2]
    <3>2. l = <<p, q>> /\ p \in Nat /\ q \in Nat
      BY <3>1
    <3> HIDE DEF p, q
    <3>3. Between(t, p, q)
      BY <2>1, <3>2, SpansAre
    <3> QED BY <3>2, <3>3
  <2>3. (p + 1)..(q - 1) # {}
    BY <2>1, <2>2
  <2>4. q # p + 1
    <3>1. PICK i \in (p + 1)..(q - 1) : TRUE
      BY <2>3
    <3>2. i \in Int /\ p + 1 <= i /\ i <= q - 1
      OBVIOUS
    <3> QED BY <3>2
  <2>5. \A j, k \in Nat : Between(t, j, k) => k = j + 1 \/ \E x \in 1..m : j = b[x] /\ k = e[x]
    BY DEF Cuts
  <2>6. PICK x \in 1..m : l = <<b[x], e[x]>>
    BY <2>2, <2>4, <2>5
  <2>7. x \in Taken(ls)
    BY <1>3, <2>6 DEF Taken
  <2> QED BY <2>6, <2>7
<1>5. ASSUME NEW x \in Taken(ls) PROVE x \in 1..m /\ <<b[x], e[x]>> \in Entries(t)
  BY <1>3 DEF Taken
<1> QED BY <1>2, <1>4, <1>5

LEMMA TextParsed ==
  ASSUME raw \in Line
  PROVE  ParsedAsWritten
<1> DEFINE t == raw  ls == Lines(t)  r == Parsed(t)
<1>1. t \in Line /\ ls \in Seq(Line)
  BY LinesType
<1>2. r \in Result /\ Answers(r, ls)
  BY <1>1, LinesAnswered DEF Parsed
<1>3. PICK b, e : Cuts(t, ls, b, e)
  BY TextCut
<1>4. /\ \A x \in 1..Len(ls) : Copies(t, b[x], e[x], ls[x]) /\ b[x] \in Nat /\ e[x] \in Nat
      /\ \A x \in Taken(ls) : x \in 1..Len(ls) /\ <<b[x], e[x]>> \in Entries(t)
      /\ \A l \in Entries(t) : \E x \in Taken(ls) : l = <<b[x], e[x]>>
  <2> HIDE DEF t, ls
  <2>1. ls = Lines(t)
    BY DEF ls
  <2> QED BY <1>1, <1>3, <2>1, TextEntries
<1>5. \A x, y \in 1..Len(ls) : x < y => e[x] <= b[y]
  BY <1>3 DEF Cuts
<1>6. ParsedAsWritten <=>
        /\ r.ok <=> \A l \in Entries(t) : IsEntry(t, l)
        /\ r.ok => /\ DOMAIN r.rows = {EntryKey(t, l) : l \in Entries(t)}
                   /\ \A l \in Entries(t) :
                         (\A k \in Entries(t) : EntryKey(t, k) = EntryKey(t, l) => k[1] <= l[1])
                            => r.rows[EntryKey(t, l)] = EntryValue(t, l)
  BY DEF ParsedAsWritten
<1> HIDE DEF t, ls, r
<1>7. \A x \in Taken(ls) : IsEntry(t, <<b[x], e[x]>>) <=> ~Wrong(ls[x])
  BY <1>4, CopyParts
<1>8. \A x \in Taken(ls) : ~Wrong(ls[x]) => /\ EntryKey(t, <<b[x], e[x]>>) = KeyOf(ls[x])
                                            /\ EntryValue(t, <<b[x], e[x]>>) = ValueOf(ls[x])
  BY <1>4, CopyParts
<1>9. r.ok <=> \A x \in Taken(ls) : ~Wrong(ls[x])
  BY <1>2 DEF Answers
<1>10. r.ok <=> \A l \in Entries(t) : IsEntry(t, l)
  <2>1. ASSUME r.ok, NEW l \in Entries(t) PROVE IsEntry(t, l)
    BY <1>4, <1>7, <1>9, <2>1
  <2>2. ASSUME \A l \in Entries(t) : IsEntry(t, l), NEW x \in Taken(ls) PROVE ~Wrong(ls[x])
    BY <1>4, <1>7, <2>2
  <2> QED BY <1>9, <2>1, <2>2
<1>11. ASSUME r.ok
       PROVE  /\ DOMAIN r.rows = {EntryKey(t, l) : l \in Entries(t)}
              /\ \A l \in Entries(t) :
                    (\A k \in Entries(t) : EntryKey(t, k) = EntryKey(t, l) => k[1] <= l[1])
                       => r.rows[EntryKey(t, l)] = EntryValue(t, l)
  <2>1. /\ \A x \in Taken(ls) : KeyOf(ls[x]) \in DOMAIN r.rows
        /\ \A k \in DOMAIN r.rows : \E x \in Taken(ls) :
              KeyOf(ls[x]) = k /\ r.rows[k] = ValueOf(ls[x]) /\ LastOf(x, ls)
    BY <1>2, <1>11 DEF Answers
  <2>2. \A x \in Taken(ls) : /\ EntryKey(t, <<b[x], e[x]>>) = KeyOf(ls[x])
                             /\ EntryValue(t, <<b[x], e[x]>>) = ValueOf(ls[x])
    BY <1>8, <1>9, <1>11
  <2>3. \A k \in DOMAIN r.rows : k \in {EntryKey(t, l) : l \in Entries(t)}
    <3> TAKE k \in DOMAIN r.rows
    <3>1. PICK x \in Taken(ls) : KeyOf(ls[x]) = k
      BY <2>1
    <3>2. <<b[x], e[x]>> \in Entries(t) /\ EntryKey(t, <<b[x], e[x]>>) = k
      BY <1>4, <2>2, <3>1
    <3> QED BY <3>2
  <2>4. \A l \in Entries(t) : EntryKey(t, l) \in DOMAIN r.rows
    <3> TAKE l \in Entries(t)
    <3>1. PICK x \in Taken(ls) : l = <<b[x], e[x]>>
      BY <1>4
    <3> QED BY <2>1, <2>2, <3>1
  <2>5. DOMAIN r.rows = {EntryKey(t, l) : l \in Entries(t)}
    BY <2>3, <2>4
  <2>6. ASSUME NEW l \in Entries(t),
               \A k \in Entries(t) : EntryKey(t, k) = EntryKey(t, l) => k[1] <= l[1]
        PROVE  r.rows[EntryKey(t, l)] = EntryValue(t, l)
    <3>1. PICK x \in Taken(ls) : l = <<b[x], e[x]>>
      BY <1>4
    <3> DEFINE k == KeyOf(ls[x])
    <3>2. EntryKey(t, l) = k /\ EntryValue(t, l) = ValueOf(ls[x]) /\ k \in DOMAIN r.rows
      BY <2>1, <2>2, <3>1
    <3>3. PICK y \in Taken(ls) : KeyOf(ls[y]) = k /\ r.rows[k] = ValueOf(ls[y]) /\ LastOf(y, ls)
      BY <2>1, <3>2
    <3>4. x <= y
      BY <3>3 DEF LastOf
    <3>5. <<b[y], e[y]>> \in Entries(t) /\ EntryKey(t, <<b[y], e[y]>>) = EntryKey(t, l)
      BY <1>4, <2>2, <3>2, <3>3
    <3>6. b[y] <= b[x]
      <4>1. <<b[y], e[y]>>[1] <= l[1]
        BY <2>6, <3>5
      <4> QED BY <3>1, <4>1
    <3>7. /\ x \in 1..Len(ls) /\ y \in 1..Len(ls) /\ b[x] \in Nat /\ e[x] \in Nat /\ b[y] \in Nat
          /\ Between(t, b[x], e[x])
      BY <1>4 DEF Copies
    <3>8. ~(x < y)
      <4>1. b[x] < e[x]
        BY <3>7 DEF Between
      <4>2. x < y => e[x] <= b[y]
        BY <1>5, <3>7
      <4> QED BY <3>6, <3>7, <4>1, <4>2
    <3>9. x = y
      <4>1. x \in Nat /\ y \in Nat
        BY <1>1, <3>7, LenProperties
      <4> QED BY <3>4, <3>8, <4>1
    <3> QED BY <3>2, <3>3, <3>9
  <2> QED BY <2>5, <2>6
<1> QED BY <1>6, <1>10, <1>11

LEMMA RawType == RawSpec => [](raw \in Line)
<1>1. RawInit => raw \in Line
  BY EmptyText DEF RawInit
<1>2. raw \in Line /\ [RawNext]_raw => (raw \in Line)'
  <2> SUFFICES ASSUME raw \in Line, [RawNext]_raw PROVE raw' \in Line
    OBVIOUS
  <2>1. ASSUME NEW c \in Char, Type(c) PROVE raw' \in Line
    BY <2>1, AppendProperties DEF Type, Line
  <2>2. CASE UNCHANGED raw
    BY <2>2
  <2> QED BY <2>1, <2>2 DEF RawNext
<1> QED BY <1>1, <1>2, PTL DEF RawSpec

\* ParsedAsWritten: whatever is typed into the textarea, parseSecretsRaw takes it
\* when its entries are KEY=VALUE and gives every key the value of its last entry.
THEOREM TextIsParsedAsWritten == RawSpec => []ParsedAsWritten
<1>1. raw \in Line => ParsedAsWritten
  BY TextParsed
<1> QED BY <1>1, RawType, PTL

-----------------------------------------------------------------------------
(* ShownIsSaved: the lines of a text that is put together.                 *)

Plain == Char \ {CR, LF}
NoCR == Char \ {CR}

LEMMA AlphabetsType ==
  /\ Seq(Plain) \subseteq Seq(NoCR) /\ Seq(NoCR) \subseteq Line
  /\ Plain \subseteq NoCR /\ NoCR \subseteq Char /\ LF \in NoCR /\ LF \in Char /\ CR \in Char
<1>1. Plain \subseteq NoCR /\ NoCR \subseteq Char /\ LF \in NoCR /\ LF \in Char /\ CR \in Char
  BY Distinct DEF Plain, NoCR
<1> QED BY <1>1, SeqMonotonic DEF Line

\* ls with y for its last element.
Grown(ls, y) == [ls EXCEPT ![Len(ls)] = y]

LEMMA LastGrown ==
  ASSUME NEW ls \in Seq(Line), NEW x \in Line, NEW y \in Line
  PROVE  Grown(Append(ls, x), y) = Append(ls, y)
<1> DEFINE v == Append(ls, x)  w == Append(ls, y)  n == Len(ls) + 1  z == [v EXCEPT ![n] = y]
<1>1. v \in Seq(Line) /\ Len(v) = n /\ (\A i \in 1..Len(ls) : v[i] = ls[i])
  BY AppendProperties
<1>2. w \in Seq(Line) /\ Len(w) = n /\ (\A i \in 1..Len(ls) : w[i] = ls[i]) /\ w[n] = y
  BY AppendProperties
<1>3. Len(ls) \in Nat /\ n \in 1..n /\ \A i \in 1..n : i \in 1..Len(ls) \/ i = n
  BY LenProperties
<1> HIDE DEF v, w
<1>4. z \in Seq(Line) /\ Len(z) = n /\ \A i \in 1..n : z[i] = IF i = n THEN y ELSE v[i]
  <2> HIDE DEF n
  <2> QED BY <1>1, <1>3, ExceptSeq
<1> HIDE DEF z, n
<1>5. \A i \in 1..n : z[i] = w[i]
  BY <1>1, <1>2, <1>3, <1>4
<1>6. z = w
  BY <1>2, <1>4, <1>5, SeqEqual
<1> QED BY <1>1, <1>6 DEF Grown, z, v, w

\* The three ways the lines go on.
LEMMA LinesInk ==
  ASSUME NEW t \in Line, NEW a \in Plain
  PROVE  Lines(Append(t, a)) = Grown(Lines(t), Append(Lines(t)[Len(Lines(t))], a))
<1>1. a \in Char /\ a # LF /\ a \notin {CR, LF}
  BY DEF Plain
<1>2. Append(t, a)[Len(t) + 1] = a
  BY <1>1, AppendProperties DEF Line
<1>3. Lines(Append(t, a)) = Joined(Append(t, a), Lines(t), Len(t) + 1)
  BY <1>1, LinesNext
<1> QED BY <1>1, <1>2, <1>3 DEF Joined, Grown

LEMMA LinesBreak ==
  ASSUME NEW t \in Line, NEW a \in {CR, LF}, a = LF => (Len(t) = 0 \/ t[Len(t)] # CR)
  PROVE  Lines(Append(t, a)) = Append(Lines(t), <<>>)
<1> DEFINE n == Len(t)  u == Append(t, a)
<1>1. a \in Char /\ n \in Nat
  BY Distinct, LenProperties DEF Line
<1>2. u[n + 1] = a /\ \A i \in 1..n : u[i] = t[i]
  BY <1>1, AppendProperties DEF Line
<1>3. Lines(u) = Joined(u, Lines(t), n + 1)
  BY <1>1, LinesNext
<1> HIDE DEF u, n
<1>4. (n + 1) - 1 = n /\ (n + 1 > 1 => n \in 1..n /\ n # 0)
  BY <1>1
<1>5. ~(u[n + 1] = LF /\ n + 1 > 1 /\ u[(n + 1) - 1] = CR)
  <2>1. SUFFICES ASSUME a = LF, n + 1 > 1, u[n] = CR PROVE FALSE
    BY <1>2, <1>4
  <2>2. t[n] = CR /\ n # 0
    BY <1>2, <1>4, <2>1
  <2> QED BY <2>1, <2>2 DEF n
<1>6. u[n + 1] \in {CR, LF}
  BY <1>2
<1>7. Lines(u) = Append(Lines(t), <<>>)
  BY <1>3, <1>5, <1>6 DEF Joined
<1> QED BY <1>7 DEF u

LEMMA LinesCRLF ==
  ASSUME NEW t \in Line
  PROVE  Lines(Append(Append(t, CR), LF)) = Append(Lines(t), <<>>)
<1> DEFINE u == Append(t, CR)
<1>1. u \in Line /\ Len(u) = Len(t) + 1 /\ u[Len(t) + 1] = CR /\ Len(t) \in Nat
  BY AlphabetsType, AppendProperties, LenProperties DEF Line
<1>2. Lines(u) = Append(Lines(t), <<>>)
  BY Distinct, LinesBreak
<1> HIDE DEF u
<1>3. Lines(Append(u, LF)) = Joined(Append(u, LF), Lines(u), Len(u) + 1)
  BY <1>1, AlphabetsType, LinesNext
<1>4. /\ Append(u, LF)[Len(u) + 1] = LF
      /\ \A i \in 1..Len(u) : Append(u, LF)[i] = u[i]
  BY <1>1, AlphabetsType, AppendProperties DEF Line
<1>5. Len(u) + 1 > 1 /\ (Len(u) + 1) - 1 = Len(u) /\ Len(u) \in 1..Len(u) /\ u[Len(u)] = CR
  BY <1>1
<1>6. Lines(Append(u, LF)) = Lines(u)
  BY <1>3, <1>4, <1>5 DEF Joined
<1> QED BY <1>2, <1>6 DEF u

LEMMA ConcatNext ==
  ASSUME NEW A, NEW u \in Seq(A), NEW w \in Seq(A), NEW a \in A
  PROVE  u \o Append(w, a) = Append(u \o w, a)
<1>1. Append(w, a) = w \o <<a>> /\ <<a>> \in Seq(A)
  BY AppendIsConcat
<1>2. u \o w \in Seq(A)
  BY ConcatProperties
<1>3. Append(u \o w, a) = (u \o w) \o <<a>>
  BY <1>2, AppendIsConcat
<1>4. (u \o w) \o <<a>> = u \o (w \o <<a>>)
  BY <1>1, ConcatAssociative
<1> QED BY <1>1, <1>3, <1>4

\* Characters that end no line are added to the last line.
LEMMA LinesRun ==
  ASSUME NEW u \in Line, NEW ls \in Seq(Line), NEW v \in Line, Lines(u) = Append(ls, v),
         NEW w \in Seq(Plain)
  PROVE  Lines(u \o w) = Append(ls, v \o w)
<1> DEFINE T == {x \in Seq(Plain) : Lines(u \o x) = Append(ls, v \o x)}
<1>1. <<>> \in T
  BY EmptySeq, ConcatEmptySeq DEF Line
<1>2. ASSUME NEW x \in Seq(Plain), x \in T, NEW a \in Plain PROVE Append(x, a) \in T
  <2>1. x \in Line /\ a \in Char /\ Append(x, a) \in Seq(Plain)
    BY AlphabetsType, AppendProperties
  <2>2. u \o Append(x, a) = Append(u \o x, a) /\ v \o Append(x, a) = Append(v \o x, a)
    <3>1. u \in Seq(Char) /\ v \in Seq(Char) /\ x \in Seq(Char) /\ a \in Char
      BY <2>1 DEF Line
    <3> QED BY <3>1, ConcatNext
  <2>3. u \o x \in Line /\ v \o x \in Line
    BY <2>1, ConcatProperties DEF Line
  <2>4. Append(v \o x, a) \in Line
    BY <2>1, <2>3, AppendProperties DEF Line
  <2> DEFINE L == Append(ls, v \o x)
  <2>5. Lines(u \o x) = L
    BY <1>2
  <2>6. L[Len(L)] = v \o x
    BY <2>3, AppendProperties
  <2>7. Lines(Append(u \o x, a)) = Grown(L, Append(L[Len(L)], a))
    BY <2>3, <2>5, LinesInk
  <2>8. Grown(L, Append(v \o x, a)) = Append(ls, Append(v \o x, a))
    BY <2>3, <2>4, LastGrown
  <2> HIDE DEF L
  <2>9. Lines(u \o Append(x, a)) = Append(ls, v \o Append(x, a))
    BY <2>2, <2>6, <2>7, <2>8
  <2> QED BY <2>1, <2>9
<1>3. Seq(Plain) \subseteq T
  <2> HIDE DEF T
  <2> QED BY <1>1, <1>2, SeqInduct
<1> QED BY <1>3

\* What the browser makes of a text changes none of its lines.
LEMMA SubmittedLines ==
  ASSUME NEW s \in Seq(NoCR)
  PROVE  Submitted(s) \in Line /\ Lines(Submitted(s)) = Lines(s)
<1> DEFINE Piece(a) == IF a = LF THEN <<CR, LF>> ELSE <<a>>
           Pieces(x) == [i \in DOMAIN x |-> Piece(x[i])]
           T == {x \in Seq(NoCR) : Submitted(x) \in Line /\ Lines(Submitted(x)) = Lines(x)}
<1>1. ASSUME NEW a \in NoCR PROVE Piece(a) \in Line
  BY AlphabetsType DEF Line
<1>2. ASSUME NEW x \in Seq(NoCR) PROVE Submitted(x) = FlattenSeq(Pieces(x)) /\ Pieces(x) \in Seq(Line)
  <2>1. Submitted(x) = FlattenSeq(Pieces(x))
    BY DEF Submitted
  <2>2. DOMAIN x = 1..Len(x) /\ Len(x) \in Nat /\ \A i \in 1..Len(x) : x[i] \in NoCR
    BY LenProperties, ElementOfSeq
  <2> HIDE DEF Piece
  <2>3. Pieces(x) \in [1..Len(x) -> Line]
    BY <1>1, <2>2
  <2>4. Pieces(x) \in Seq(Line)
    <3> HIDE DEF Pieces
    <3> QED BY <2>2, <2>3, SeqDef
  <2> QED BY <2>1, <2>4
<1>3. <<>> \in T
  <2>1. <<>> \in Seq(NoCR) /\ Pieces(<<>>) = <<>>
    BY EmptySeq
  <2>2. Submitted(<<>>) = <<>>
    BY <1>2, <2>1 DEF FlattenSeq
  <2> QED BY <2>1, <2>2, EmptyText
<1>4. ASSUME NEW x \in Seq(NoCR), x \in T, NEW a \in NoCR PROVE Append(x, a) \in T
  <2> DEFINE y == Append(x, a)  n == Len(x)
  <2>1. /\ y \in Seq(NoCR) /\ Len(y) = n + 1 /\ n \in Nat /\ (\A i \in 1..n : y[i] = x[i])
        /\ y[n + 1] = a
    BY AppendProperties, LenProperties
  <2>2. DOMAIN x = 1..n /\ DOMAIN y = 1..(n + 1)
    BY <2>1, LenProperties
  <2>3. Piece(a) \in Line /\ Pieces(x) \in Seq(Line) /\ Pieces(y) \in Seq(Line)
    BY <1>1, <1>2, <2>1
  <2>4. Pieces(y) = Append(Pieces(x), Piece(a))
    <3> DEFINE P == Append(Pieces(x), Piece(a))
    <3> HIDE DEF y, n, Piece
    <3>1. /\ P \in Seq(Line) /\ Len(P) = Len(Pieces(x)) + 1
          /\ (\A i \in 1..Len(Pieces(x)) : P[i] = Pieces(x)[i])
          /\ P[Len(Pieces(x)) + 1] = Piece(a)
      <4> HIDE DEF Pieces
      <4> QED BY <2>3, AppendProperties
    <3>2. Len(Pieces(x)) = n /\ Len(Pieces(y)) = n + 1
      <4>1. DOMAIN Pieces(x) = 1..n /\ DOMAIN Pieces(y) = 1..(n + 1)
        BY <2>2
      <4> HIDE DEF Pieces
      <4>2. DOMAIN Pieces(x) = 1..Len(Pieces(x)) /\ DOMAIN Pieces(y) = 1..Len(Pieces(y))
            /\ Len(Pieces(x)) \in Nat /\ Len(Pieces(y)) \in Nat
        BY <2>3, LenProperties
      <4> QED BY <2>1, <4>1, <4>2
    <3>3. \A i \in 1..(n + 1) : i \in 1..n \/ i = n + 1
      BY <2>1
    <3>4. /\ \A i \in 1..n : Pieces(y)[i] = Piece(x[i]) /\ Pieces(x)[i] = Piece(x[i])
          /\ Pieces(y)[n + 1] = Piece(a)
      <4>1. (\A i \in 1..n : i \in 1..(n + 1)) /\ n + 1 \in 1..(n + 1)
        BY <2>1
      <4> QED BY <2>1, <2>2, <4>1
    <3> HIDE DEF Pieces, P
    <3>5. \A i \in 1..(n + 1) : Pieces(y)[i] = P[i]
      BY <3>1, <3>2, <3>3, <3>4
    <3>6. Pieces(y) = P
      BY <2>3, <3>1, <3>2, <3>5, SeqEqual
    <3> QED BY <3>6 DEF P
  <2>5. Submitted(y) = Submitted(x) \o Piece(a)
    <3> HIDE DEF y, Piece, Pieces
    <3>1. FlattenSeq(Append(Pieces(x), Piece(a))) = FlattenSeq(Pieces(x)) \o Piece(a)
      BY <2>3, FlattenNext DEF Line
    <3> QED BY <1>2, <2>1, <2>4, <3>1
  <2> DEFINE z == Submitted(x)
  <2>6. z \in Line /\ Lines(z) = Lines(x) /\ x \in Line /\ a \in Char
    BY <1>4, AlphabetsType
  <2> HIDE DEF z
  <2>7. CASE a = LF
    <3>1. Append(z, CR) \in Line /\ Append(z, CR) = z \o <<CR>>
      BY <2>6, AlphabetsType, AppendProperties, AppendIsConcat DEF Line
    <3>2. Append(Append(z, CR), LF) = z \o <<CR, LF>> /\ Append(Append(z, CR), LF) \in Line
      <4>1. <<CR>> \in Line /\ Append(<<CR>>, LF) = <<CR, LF>>
        <5>1. CR \in Char
          BY AlphabetsType
        <5>2. <<CR>> \in Seq(Char)
          BY <5>1
        <5> DEFINE p == <<CR>>  d == <<CR, LF>>
        <5>3. Len(p) = 1 /\ p[1] = CR /\ d \in Seq(Char) /\ Len(d) = 2 /\ d[1] = CR /\ d[2] = LF
          BY AlphabetsType
        <5> HIDE DEF p, d
        <5>4. /\ Append(p, LF) \in Seq(Char) /\ Len(Append(p, LF)) = Len(p) + 1
              /\ (\A i \in 1..Len(p) : Append(p, LF)[i] = p[i]) /\ Append(p, LF)[Len(p) + 1] = LF
          BY <5>2, AlphabetsType, AppendProperties DEF p
        <5>5. \A i \in 1..2 : i = 1 \/ i = 2
          OBVIOUS
        <5>6. Len(Append(p, LF)) = 2 /\ \A i \in 1..2 : Append(p, LF)[i] = d[i]
          BY <5>3, <5>4, <5>5
        <5>7. Append(p, LF) = d
          BY <5>3, <5>4, <5>6, SeqEqual
        <5> QED BY <5>2, <5>7 DEF Line, p, d
      <4>2. z \o Append(<<CR>>, LF) = Append(z \o <<CR>>, LF)
        BY <2>6, <4>1, AlphabetsType, ConcatNext DEF Line
      <4>3. Append(Append(z, CR), LF) \in Line
        BY <3>1, AlphabetsType, AppendProperties DEF Line
      <4> QED BY <3>1, <4>1, <4>2, <4>3
    <3>3. Submitted(y) = Append(Append(z, CR), LF)
      BY <2>5, <2>7, <3>2 DEF z
    <3>4. Lines(Submitted(y)) = Append(Lines(x), <<>>)
      BY <2>6, <3>3, LinesCRLF
    <3>5. n = 0 \/ x[n] # CR
      <4>1. n # 0 => n \in 1..n
        BY <2>1
      <4>2. n # 0 => x[n] \in NoCR
        BY <4>1, ElementOfSeq
      <4> QED BY <4>2 DEF NoCR
    <3>6. Lines(Append(x, LF)) = Append(Lines(x), <<>>)
      BY <2>6, <3>5, LinesBreak
    <3> QED BY <2>1, <2>7, <3>2, <3>3, <3>4, <3>6
  <2>8. CASE a # LF
    <3>1. a \in Plain
      BY <2>8 DEF Plain, NoCR
    <3>2. Submitted(y) = Append(z, a) /\ Append(z, a) \in Line
      BY <2>5, <2>6, <2>8, AppendIsConcat, AppendProperties DEF Line, z
    <3>3. Lines(Append(z, a)) = Lines(Append(x, a))
      BY <2>6, <3>1, LinesInk
    <3> QED BY <2>1, <3>2, <3>3
  <2> QED BY <2>7, <2>8
<1>5. Seq(NoCR) \subseteq T
  <2> HIDE DEF T
  <2> QED BY <1>3, <1>4, SeqInduct
<1> QED BY <1>5

-----------------------------------------------------------------------------
(* ShownIsSaved: the rows of the text that is shown.                       *)

\* A row as a line, and what is read back from it.
RowLine(key, value) == key \o <<"=">> \o value

LEMMA RowLineType ==
  ASSUME NEW key \in Line, IsKey(key), NEW value \in Seq(Plain)
  PROVE  /\ RowLine(key, value) \in Seq(Plain) /\ key \in Seq(Plain)
         /\ Len(key) \in Nat /\ Len(key) # 0 /\ Len(value) \in Nat
         /\ Len(RowLine(key, value)) = Len(key) + 1 + Len(value)
         /\ \A i \in 1..Len(key) : RowLine(key, value)[i] = key[i]
         /\ RowLine(key, value)[Len(key) + 1] = "="
         /\ \A i \in 1..Len(value) : RowLine(key, value)[Len(key) + 1 + i] = value[i]
         /\ \A i \in 1..Len(key) : key[i] \notin {"=", "#", " ", CR, LF}
<1> DEFINE n == Len(key)  u == key \o <<"=">>  w == u \o value
<1>1. n \in Nat /\ n # 0 /\ Len(value) \in Nat /\ DOMAIN key = 1..n
  BY EmptySeq, LenProperties DEF Line, IsKey
<1>2. \A i \in 1..n : key[i] \in Letter \cup Digit
  BY <1>1 DEF IsKey, ToSet
<1>3. \A i \in 1..n : key[i] \notin {"=", "#", " ", CR, LF} /\ key[i] \in Plain
  BY <1>2, Distinct DEF Plain
<1>4. key \in Seq(Plain)
  <2>1. key \in [1..n -> Plain]
    <3>1. key \in [1..n -> Char]
      BY LenProperties DEF Line
    <3> QED BY <1>3, <3>1
  <2> QED BY <1>1, <2>1, SeqDef
<1>5. "=" \in Plain
  BY Distinct DEF Plain
<1>6. <<"=">> \in Seq(Plain) /\ Len(<<"=">>) = 1 /\ <<"=">>[1] = "="
  BY <1>5
<1>7. /\ u \in Seq(Plain) /\ Len(u) = n + 1
      /\ \A i \in 1..(n + 1) : u[i] = IF i <= n THEN key[i] ELSE <<"=">>[i - n]
  BY <1>4, <1>6, ConcatProperties
<1> HIDE DEF u
<1>8. /\ w \in Seq(Plain) /\ Len(w) = Len(u) + Len(value)
      /\ \A i \in 1..(Len(u) + Len(value)) : w[i] = IF i <= Len(u) THEN u[i] ELSE value[i - Len(u)]
  <2>1. u \in Seq(Plain)
    BY <1>7
  <2> HIDE DEF n
  <2> QED BY <2>1, ConcatProperties
<1> HIDE DEF w, n
<1>9. ASSUME NEW i \in 1..n PROVE w[i] = key[i]
  <2>1. i \in 1..(n + 1) /\ i <= n /\ i \in 1..(Len(u) + Len(value)) /\ i <= Len(u)
    BY <1>1, <1>7
  <2> QED BY <1>7, <1>8, <2>1
<1>10. w[n + 1] = "="
  <2>1. n + 1 \in 1..(n + 1) /\ ~(n + 1 <= n) /\ (n + 1) - n = 1 /\ n + 1 <= Len(u)
        /\ n + 1 \in 1..(Len(u) + Len(value))
    BY <1>1, <1>7
  <2>2. u[n + 1] = "="
    BY <1>6, <1>7, <2>1
  <2> QED BY <1>8, <2>1, <2>2
<1>11. ASSUME NEW i \in 1..Len(value) PROVE w[n + 1 + i] = value[i]
  <2>1. n + 1 + i \in 1..(Len(u) + Len(value)) /\ ~(n + 1 + i <= Len(u)) /\ (n + 1 + i) - Len(u) = i
    BY <1>1, <1>7
  <2> QED BY <1>8, <2>1
<1>12. w = RowLine(key, value)
  BY DEF RowLine, w, u
<1> QED BY <1>1, <1>3, <1>4, <1>7, <1>8, <1>9, <1>10, <1>11, <1>12 DEF n

LEMMA RowLineParts ==
  ASSUME NEW key \in Line, IsKey(key), NEW value \in Seq(Plain)
  PROVE  /\ ~Skipped(RowLine(key, value)) /\ ~Wrong(RowLine(key, value))
         /\ KeyOf(RowLine(key, value)) = key /\ ValueOf(RowLine(key, value)) = value
<1> DEFINE w == RowLine(key, value)  n == Len(key)  k == Len(value)
<1>1. /\ w \in Line /\ key \in Line /\ value \in Line /\ n \in Nat /\ n # 0 /\ k \in Nat
      /\ Len(w) = n + 1 + k
      /\ (\A i \in 1..n : w[i] = key[i]) /\ w[n + 1] = "="
      /\ (\A i \in 1..k : w[n + 1 + i] = value[i])
      /\ (\A i \in 1..n : key[i] \notin {"=", "#", " ", CR, LF})
  BY RowLineType, AlphabetsType
<1>2. \A i \in 1..Len(w) : w[i] \in Char
  BY <1>1, ElementOfSeq DEF Line
<1> HIDE DEF w, n, k
<1>3. n \in Nat /\ n # 0 /\ k \in Nat /\ Len(w) = n + 1 + k
  BY <1>1
<1>4. 1 \in 1..n /\ n \in 1..n /\ 1 \in 1..Len(w) /\ n + 1 \in 1..Len(w) /\ \A i \in 1..n : i \in 1..Len(w)
  BY <1>3
<1>5. ~Skipped(w)
  <2>1. 1 \in Ink(w)
    BY <1>1, <1>4 DEF Ink
  <2>2. /\ Min(Ink(w)) \in Ink(w) /\ Min(Ink(w)) <= 1
        /\ Trimmed(w) # <<>> /\ Trimmed(w)[1] = w[Min(Ink(w))]
    BY <1>1, <2>1, TrimmedIs
  <2>3. Min(Ink(w)) \in 1..Len(w)
    BY <2>2 DEF Ink
  <2>4. Min(Ink(w)) = 1
    BY <2>2, <2>3
  <2> QED BY <1>1, <1>4, <2>2, <2>4 DEF Skipped
<1>6. Split(w) = n + 1
  <2>1. /\ Split(w) \in 0..Len(w) /\ (Split(w) = 0 => \A i \in 1..Len(w) : w[i] # "=")
        /\ (Split(w) # 0 => w[Split(w)] = "=" /\ \A i \in 1..Len(w) : w[i] = "=" => Split(w) <= i)
    BY <1>1, SplitIs
  <2>2. Split(w) # 0 /\ Split(w) <= n + 1
    BY <1>1, <1>4, <2>1
  <2>3. Split(w) \notin 1..n
    <3>1. w[Split(w)] = "="
      BY <2>1, <2>2
    <3>2. \A i \in 1..n : w[i] # "="
      BY <1>1
    <3> QED BY <3>1, <3>2
  <2>4. Split(w) \in 0..Len(w)
    BY <2>1
  <2> QED BY <1>3, <2>2, <2>3, <2>4
<1>7. SubSeq(w, 1, n) = key
  <2> DEFINE a == 1  z == n  x == SubSeq(w, a, z)
  <2>1. a \in Int /\ z \in Int /\ a <= z /\ z - a + 1 = n
    BY <1>3
  <2>2. \A i \in a..z : w[i] \in Char
    BY <1>2, <1>4
  <2>3. \A i \in 1..n : a + i - 1 = i
    BY <1>3
  <2> HIDE DEF a, z
  <2>4. /\ x \in Seq(Char) /\ Len(x) = (IF a <= z THEN z - a + 1 ELSE 0)
        /\ \A i \in 1..(z - a + 1) : x[i] = w[a + i - 1]
    BY <2>1, <2>2, SubSeqProperties
  <2> HIDE DEF x
  <2>5. Len(x) = n
    BY <2>1, <2>4
  <2>6. ASSUME NEW i \in 1..n PROVE x[i] = key[i]
    <3>1. w[i] = key[i]
      BY <1>1
    <3> QED BY <2>1, <2>3, <2>4, <3>1
  <2>7. x = key
    BY <1>1, <2>4, <2>5, <2>6, SeqEqual DEF n, Line
  <2> QED BY <2>7 DEF x, a, z
<1>8. Trimmed(key) = key
  <2>1. Ink(key) = 1..n
    BY <1>1 DEF Ink, n
  <2>2. /\ Min(Ink(key)) \in 1..n /\ Min(Ink(key)) <= 1 /\ Max(Ink(key)) \in 1..n /\ n <= Max(Ink(key))
        /\ Trimmed(key) = SubSeq(key, Min(Ink(key)), Max(Ink(key)))
    BY <1>1, <1>4, <2>1, TrimmedIs
  <2>3. Min(Ink(key)) = 1 /\ Max(Ink(key)) = n
    BY <1>3, <2>2
  <2>4. SubSeq(key, 1, Len(key)) = key
    BY SubSeqFull DEF Line
  <2> QED BY <2>2, <2>3, <2>4 DEF n
<1>9. KeyOf(w) = key
  <2>1. Split(w) - 1 = n
    BY <1>3, <1>6
  <2> QED BY <1>7, <1>8, <2>1 DEF KeyOf
<1>10. ~Wrong(w)
  <2>1. Split(w) # 0
    BY <1>3, <1>6
  <2> QED BY <1>9, <2>1 DEF Wrong
<1>11. ValueOf(w) = value
  <2> DEFINE a == n + 2  z == Len(w)  x == SubSeq(w, a, z)
  <2>1. a \in Int /\ z \in Int /\ z - a + 1 = k /\ (a <= z <=> k # 0)
    BY <1>3
  <2>2. \A i \in a..z : i \in 1..Len(w)
    BY <1>3
  <2>3. \A i \in a..z : w[i] \in Char
    BY <1>2, <2>2
  <2>4. \A i \in 1..k : a + i - 1 = n + 1 + i
    BY <1>3
  <2> HIDE DEF a, z
  <2>5. /\ x \in Seq(Char) /\ Len(x) = (IF a <= z THEN z - a + 1 ELSE 0)
        /\ \A i \in 1..(z - a + 1) : x[i] = w[a + i - 1]
    BY <2>1, <2>3, SubSeqProperties
  <2> HIDE DEF x
  <2>6. Len(x) = k
    BY <1>3, <2>1, <2>5
  <2>7. ASSUME NEW i \in 1..k PROVE x[i] = value[i]
    <3>1. w[n + 1 + i] = value[i]
      BY <1>1
    <3> QED BY <2>1, <2>4, <2>5, <3>1
  <2>8. x = value
    BY <1>1, <2>5, <2>6, <2>7, SeqEqual DEF k, Line
  <2>9. (n + 1) + 1 = n + 2
    BY <1>3
  <2>10. ValueOf(w) = SubSeq(w, n + 2, Len(w))
    BY <1>6, <2>9 DEF ValueOf
  <2> QED BY <2>8, <2>10 DEF x, a, z
<1> QED BY <1>5, <1>9, <1>10, <1>11 DEF w

\* F of each element of x.
Mapped(F, x) == [i \in DOMAIN x |-> F[x[i]]]

MapGrows(F, x, a) == Mapped(F, Append(x, a)) = Append(Mapped(F, x), F[a])

LEMMA MapNext ==
  ASSUME NEW A, NEW B, NEW F \in [A -> B], NEW x \in Seq(A), NEW a \in A
  PROVE  /\ Mapped(F, x) \in Seq(B) /\ F[a] \in B
         /\ MapGrows(F, x, a)
<1>1. ASSUME NEW z \in Seq(A)
      PROVE  Mapped(F, z) \in Seq(B) /\ Len(Mapped(F, z)) = Len(z) /\ Len(z) \in Nat
             /\ \A i \in 1..Len(z) : Mapped(F, z)[i] = F[z[i]]
  <2>1. DOMAIN z = 1..Len(z) /\ Len(z) \in Nat /\ \A i \in 1..Len(z) : z[i] \in A
    BY LenProperties, ElementOfSeq
  <2>2. Mapped(F, z) = [i \in 1..Len(z) |-> F[z[i]]]
    BY <2>1 DEF Mapped
  <2>3. Mapped(F, z) \in [1..Len(z) -> B]
    BY <2>1, <2>2
  <2>4. Mapped(F, z) \in Seq(B)
    BY <2>1, <2>3, SeqDef
  <2>5. DOMAIN Mapped(F, z) = 1..Len(z) /\ DOMAIN Mapped(F, z) = 1..Len(Mapped(F, z))
        /\ Len(Mapped(F, z)) \in Nat
    BY <2>3, <2>4, LenProperties
  <2>6. Len(Mapped(F, z)) = Len(z)
    BY <2>1, <2>5
  <2> QED BY <2>1, <2>2, <2>4, <2>6
<1> DEFINE y == Append(x, a)  n == Len(x)  p == Mapped(F, x)  q == Append(p, F[a])
<1>2. /\ y \in Seq(A) /\ Len(y) = n + 1 /\ n \in Nat /\ (\A i \in 1..n : y[i] = x[i]) /\ y[n + 1] = a
  BY AppendProperties, LenProperties
<1>3. p \in Seq(B) /\ Len(p) = n /\ (\A i \in 1..n : p[i] = F[x[i]]) /\ F[a] \in B
  BY <1>1
<1> HIDE DEF p, y
<1>4. /\ q \in Seq(B) /\ Len(q) = n + 1 /\ (\A i \in 1..n : q[i] = p[i]) /\ q[n + 1] = F[a]
  BY <1>3, AppendProperties
<1> HIDE DEF q, n
<1>5. /\ Mapped(F, y) \in Seq(B) /\ Len(Mapped(F, y)) = n + 1
      /\ \A i \in 1..(n + 1) : Mapped(F, y)[i] = F[y[i]]
  BY <1>1, <1>2
<1>6. \A i \in 1..(n + 1) : i \in 1..n \/ i = n + 1
  BY <1>2
<1>7. \A i \in 1..(n + 1) : Mapped(F, y)[i] = q[i]
  BY <1>2, <1>3, <1>4, <1>5, <1>6
<1>8. Mapped(F, y) = q
  BY <1>4, <1>5, <1>7, SeqEqual
<1> QED BY <1>3, <1>8 DEF p, y, q, MapGrows

\* The text with the lines ls, each of them ended by LF.
WithLF == [l \in Seq(Plain) |-> l \o <<LF>>]
TextOf(ls) == FlattenSeq(Mapped(WithLF, ls))

LEMMA TextOfLines ==
  ASSUME NEW ls \in Seq(Seq(Plain))
  PROVE  TextOf(ls) \in Seq(NoCR) /\ Lines(TextOf(ls)) = Append(ls, <<>>)
<1> DEFINE T == {x \in Seq(Seq(Plain)) : TextOf(x) \in Seq(NoCR) /\ Lines(TextOf(x)) = Append(x, <<>>)}
<1>1. WithLF \in [Seq(Plain) -> Seq(NoCR)]
  <2>1. ASSUME NEW l \in Seq(Plain) PROVE l \o <<LF>> \in Seq(NoCR)
    <3>1. l \in Seq(NoCR) /\ LF \in NoCR
      BY AlphabetsType
    <3>2. <<LF>> \in Seq(NoCR)
      BY <3>1
    <3> QED BY <3>1, <3>2, ConcatProperties
  <2> QED BY <2>1 DEF WithLF
<1>2. <<>> \in T
  <2>1. <<>> \in Seq(Seq(Plain)) /\ Mapped(WithLF, <<>>) = <<>> /\ <<>> \in Seq(NoCR)
    BY EmptySeq DEF Mapped
  <2>2. TextOf(<<>>) = <<>>
    BY <2>1 DEF TextOf, FlattenSeq
  <2>3. Append(<<>>, <<>>) = << <<>> >>
    OBVIOUS
  <2> QED BY <2>1, <2>2, <2>3, EmptyText
<1>3. ASSUME NEW x \in Seq(Seq(Plain)), x \in T, NEW a \in Seq(Plain) PROVE Append(x, a) \in T
  <2> DEFINE u == TextOf(x)  v == u \o a
  <2>1. u \in Seq(NoCR) /\ Lines(u) = Append(x, <<>>) /\ Append(x, a) \in Seq(Seq(Plain))
    BY <1>3, AppendProperties
  <2>2. TextOf(Append(x, a)) = u \o (a \o <<LF>>)
    <3>1. /\ Mapped(WithLF, x) \in Seq(Seq(NoCR)) /\ WithLF[a] \in Seq(NoCR)
          /\ Mapped(WithLF, Append(x, a)) = Append(Mapped(WithLF, x), WithLF[a])
      <4> DEFINE A == Seq(Plain)  B == Seq(NoCR)  F == WithLF
      <4>1. F \in [A -> B] /\ x \in Seq(A) /\ a \in A
        BY <1>1
      <4> HIDE DEF A, B, F, T, u
      <4>2. Mapped(F, x) \in Seq(B) /\ F[a] \in B /\ MapGrows(F, x, a)
        BY <4>1, MapNext
      <4> QED BY <4>2 DEF B, F, MapGrows
    <3>2. FlattenSeq(Append(Mapped(WithLF, x), WithLF[a])) = FlattenSeq(Mapped(WithLF, x)) \o WithLF[a]
      BY <3>1, FlattenNext
    <3>3. WithLF[a] = a \o <<LF>>
      BY DEF WithLF
    <3> QED BY <3>1, <3>2, <3>3 DEF TextOf
  <2> HIDE DEF u
  <2>3. a \in Seq(NoCR) /\ a \in Seq(Char) /\ u \in Seq(Char) /\ LF \in NoCR /\ LF \in Char
    BY <2>1, AlphabetsType DEF Line
  <2>4. v \in Seq(NoCR) /\ v \in Line
    BY <2>1, <2>3, ConcatProperties, AlphabetsType
  <2>5. <<LF>> \in Seq(NoCR)
    BY <2>3
  <2>6. u \o (a \o <<LF>>) = v \o <<LF>>
    BY <2>1, <2>3, <2>5, ConcatAssociative
  <2>7. Lines(v) = Append(x, a)
    <3>1. x \in Seq(Line) /\ <<>> \in Line
      <4>1. Seq(Plain) \subseteq Line
        BY AlphabetsType
      <4> QED BY <4>1, SeqMonotonic, EmptyText
    <3>2. <<>> \o a = a
      BY ConcatEmptySeq
    <3>3. Lines(v) = Append(x, <<>> \o a)
      BY <2>1, <2>3, <3>1, LinesRun DEF Line
    <3> QED BY <3>2, <3>3
  <2> HIDE DEF v
  <2>8. v \o <<LF>> = Append(v, LF) /\ Append(v, LF) \in Seq(NoCR)
    BY <2>3, <2>4, AppendIsConcat, AppendProperties
  <2>9. Len(v) = 0 \/ v[Len(v)] # CR
    <3>1. Len(v) # 0 => Len(v) \in 1..Len(v)
      BY <2>4, LenProperties
    <3>2. Len(v) # 0 => v[Len(v)] \in NoCR
      BY <2>4, <3>1, ElementOfSeq
    <3> QED BY <3>2 DEF NoCR
  <2>10. Lines(Append(v, LF)) = Append(Append(x, a), <<>>)
    BY <2>4, <2>7, <2>9, LinesBreak
  <2> QED BY <2>1, <2>2, <2>6, <2>8, <2>10
<1>4. Seq(Seq(Plain)) \subseteq T
  <2> HIDE DEF T
  <2> QED BY <1>2, <1>3, SeqInduct
<1> QED BY <1>4

\* The rows a POST may have made.
Kept(f) == /\ f \in Rows /\ IsFiniteSet(DOMAIN f)
           /\ \A k \in DOMAIN f : IsKey(k) /\ f[k] \in Seq(Plain)

\* The keys of f are in some order.
Ordered(f, n, q) == /\ q \in [1..n -> DOMAIN f]
                    /\ \A k \in DOMAIN f : \E i \in 1..n : q[i] = k

\* The rows as lines, in that order.
RowLines(f, n, q) == [i \in 1..n |-> RowLine(q[i], f[q[i]])]

LEMMA RenderedText ==
  ASSUME NEW f, Kept(f)
  PROVE  \E n \in Nat : \E q : /\ Ordered(f, n, q) /\ RowLines(f, n, q) \in Seq(Seq(Plain))
                               /\ Rendered(f) = TextOf(RowLines(f, n, q))
<1> DEFINE D == DOMAIN f  n == Cardinality(D)  q == SetToSeq(D)  ls == RowLines(f, n, q)
<1>1. n \in Nat /\ \E h \in [1..n -> D] : IsInjective(h)
  <2>1. IsFiniteSet(D)
    BY DEF Kept
  <2> HIDE DEF D
  <2>2. n \in Nat /\ ExistsBijection(1..n, D)
    BY <2>1, FS_CardinalityType
  <2> QED BY <2>2 DEF ExistsBijection, Bijection, Injection
<1>2. q \in [1..n -> D] /\ IsInjective(q)
  BY <1>1 DEF SetToSeq
<1>3. \A k \in D : \E i \in 1..n : q[i] = k
  <2>1. IsFiniteSet(D)
    BY DEF Kept
  <2> HIDE DEF D, q
  <2>2. q \in Injection(1..n, D)
    BY <1>2 DEF Injection
  <2>3. Cardinality(1..n) = n
    BY <1>1, FS_Interval
  <2>4. q \in Surjection(1..n, D)
    BY <2>1, <2>2, <2>3, FS_Injection
  <2> QED BY <2>4 DEF Surjection
<1>4. Rendered(f) = FlattenSeq([i \in 1..n |-> q[i] \o <<"=">> \o f[q[i]] \o <<LF>>])
  BY DEF Rendered
<1> HIDE DEF n, q
<1>5. ASSUME NEW i \in 1..n PROVE RowLine(q[i], f[q[i]]) \in Seq(Plain)
  <2>1. q[i] \in DOMAIN f
    BY <1>2
  <2>2. q[i] \in Line /\ IsKey(q[i]) /\ f[q[i]] \in Seq(Plain)
    BY <2>1, RowsType DEF Kept
  <2> QED BY <2>2, RowLineType
<1>6. ls \in [1..n -> Seq(Plain)]
  BY <1>5 DEF RowLines
<1>7. ls \in Seq(Seq(Plain)) /\ DOMAIN ls = 1..n
  <2> HIDE DEF ls
  <2> QED BY <1>1, <1>6, SeqDef
<1>8. Mapped(WithLF, ls) = [i \in 1..n |-> q[i] \o <<"=">> \o f[q[i]] \o <<LF>>]
  <2>1. Mapped(WithLF, ls) = [i \in 1..n |-> WithLF[ls[i]]]
    <3> HIDE DEF ls
    <3> QED BY <1>7 DEF Mapped
  <2>2. ASSUME NEW i \in 1..n PROVE WithLF[ls[i]] = q[i] \o <<"=">> \o f[q[i]] \o <<LF>>
    <3>1. ls[i] = RowLine(q[i], f[q[i]])
      BY DEF RowLines
    <3> HIDE DEF ls
    <3>2. WithLF[ls[i]] = ls[i] \o <<LF>>
      BY <1>6 DEF WithLF
    <3> QED BY <3>1, <3>2 DEF RowLine
  <2> HIDE DEF ls
  <2> QED BY <2>1, <2>2
<1>9. Ordered(f, n, q)
  BY <1>2, <1>3 DEF Ordered
<1>10. Rendered(f) = TextOf(ls)
  BY <1>4, <1>8 DEF TextOf
<1> QED BY <1>1, <1>7, <1>9, <1>10

\* What is read back from the rows as lines.
LEMMA RowsReadBack ==
  ASSUME NEW f, Kept(f), NEW n \in Nat, NEW q, Ordered(f, n, q),
         RowLines(f, n, q) \in Seq(Seq(Plain))
  PROVE  LET ls == Append(RowLines(f, n, q), <<>>) IN
         /\ ParsedLines(ls) \in Result /\ ParsedLines(ls).ok = TRUE
         /\ DOMAIN ParsedLines(ls).rows = DOMAIN f
         /\ \A k \in DOMAIN f : ParsedLines(ls).rows[k] = f[k]
<1> DEFINE row == RowLines(f, n, q)  ls == Append(row, <<>>)  r == ParsedLines(ls)
<1>1. ASSUME NEW i \in 1..n
      PROVE  /\ q[i] \in DOMAIN f /\ row[i] = RowLine(q[i], f[q[i]])
             /\ ~Skipped(row[i]) /\ ~Wrong(row[i]) /\ KeyOf(row[i]) = q[i] /\ ValueOf(row[i]) = f[q[i]]
  <2>1. q[i] \in DOMAIN f /\ row[i] = RowLine(q[i], f[q[i]])
    BY DEF Ordered, RowLines
  <2>2. q[i] \in Line /\ IsKey(q[i]) /\ f[q[i]] \in Seq(Plain)
    BY <2>1, RowsType DEF Kept
  <2> HIDE DEF row
  <2> QED BY <2>1, <2>2, RowLineParts
<1>2. row \in Seq(Line) /\ Len(row) = n /\ <<>> \in Line
  <2>1. Seq(Plain) \subseteq Line
    BY AlphabetsType
  <2>2. DOMAIN row = 1..n
    BY DEF RowLines
  <2> HIDE DEF row
  <2>3. row \in Seq(Seq(Plain))
    BY DEF row
  <2>4. DOMAIN row = 1..Len(row) /\ Len(row) \in Nat
    BY <2>3, LenProperties
  <2>5. Len(row) = n
    BY <2>2, <2>4
  <2> QED BY <2>1, <2>3, <2>5, SeqMonotonic, EmptyText
<1> HIDE DEF row
<1>3. /\ ls \in Seq(Line) /\ Len(ls) = n + 1 /\ (\A i \in 1..n : ls[i] = row[i])
      /\ ls[n + 1] = <<>>
  BY <1>2, AppendProperties
<1>4. Skipped(<<>>)
  <2>1. Ink(<<>>) = {} /\ <<>> \in Line
    BY EmptySeq, EmptyText DEF Ink
  <2> QED BY <2>1, TrimmedIs DEF Skipped
<1> HIDE DEF ls
<1>5. \A x \in 1..(n + 1) : x \in 1..n \/ x = n + 1
  OBVIOUS
<1>6. ASSUME NEW x \in Taken(ls)
      PROVE  x \in 1..n /\ ls[x] = row[x]
  <2>1. x \in 1..(n + 1) /\ ~Skipped(ls[x])
    BY <1>3 DEF Taken
  <2> QED BY <1>3, <1>4, <1>5, <2>1
<1>7. ASSUME NEW x \in 1..n PROVE x \in Taken(ls) /\ ls[x] = row[x]
  <2>1. x \in 1..(n + 1)
    OBVIOUS
  <2> QED BY <1>1, <1>3, <2>1 DEF Taken
<1>8. r \in Result /\ Answers(r, ls)
  BY <1>3, LinesAnswered
<1> HIDE DEF r
<1>9. r.ok = TRUE
  <2>1. \A x \in Taken(ls) : ~Wrong(ls[x])
    BY <1>1, <1>6
  <2>2. r.ok
    BY <1>8, <2>1 DEF Answers
  <2> QED BY <1>8, <2>2 DEF Result
<1>10. ASSUME NEW k \in DOMAIN r.rows PROVE k \in DOMAIN f /\ r.rows[k] = f[k]
  <2>1. PICK x \in Taken(ls) : KeyOf(ls[x]) = k /\ r.rows[k] = ValueOf(ls[x])
    BY <1>8, <1>9 DEF Answers
  <2>2. x \in 1..n /\ ls[x] = row[x]
    BY <1>6
  <2> QED BY <1>1, <2>1, <2>2
<1>11. ASSUME NEW k \in DOMAIN f PROVE k \in DOMAIN r.rows
  <2>1. PICK x \in 1..n : q[x] = k
    BY DEF Ordered
  <2>2. x \in Taken(ls) /\ ls[x] = row[x]
    BY <1>7
  <2>3. KeyOf(ls[x]) \in DOMAIN r.rows
    BY <1>8, <1>9, <2>2 DEF Answers
  <2> QED BY <1>1, <2>1, <2>2, <2>3
<1>12. DOMAIN r.rows = DOMAIN f /\ \A k \in DOMAIN f : r.rows[k] = f[k]
  BY <1>10, <1>11
<1> QED BY <1>8, <1>9, <1>12 DEF r, ls, row

\* The lines of a text hold no end of a line.
LEMMA LinesPlain ==
  ASSUME NEW t \in Line, NEW x \in 1..Len(Lines(t))
  PROVE  Lines(t)[x] \in Line /\ Lines(t)[x] \in Seq(Plain)
<1> DEFINE ls == Lines(t)  l == ls[x]
<1>1. PICK b, e : Cuts(t, ls, b, e)
  BY TextCut
<1>2. Copies(t, b[x], e[x], l) /\ b[x] \in Nat
  BY <1>1, TextEntries
<1> HIDE DEF ls, l
<1>3. l \in Line /\ Len(l) \in Nat /\ \A i \in 1..Len(l) : l[i] \in Plain
  BY <1>2, CopyBounds DEF Copies, Plain
<1>4. l \in [1..Len(l) -> Char]
  BY <1>3, LenProperties DEF Line
<1>5. l \in [1..Len(l) -> Plain]
  BY <1>3, <1>4
<1>6. l \in Seq(Plain)
  BY <1>3, <1>5, SeqDef
<1> QED BY <1>3, <1>6 DEF l, ls

\* The rows a POST makes.
LEMMA RowsKept ==
  ASSUME NEW t \in Line, Parsed(t).ok
  PROVE  Parsed(t) \in Result /\ Kept(Parsed(t).rows)
<1> DEFINE ls == Lines(t)  r == Parsed(t)  f == r.rows
<1>1. ls \in Seq(Line)
  BY LinesType
<1>2. r \in Result /\ Answers(r, ls)
  BY <1>1, LinesAnswered DEF Parsed
<1>3. \A x \in 1..Len(ls) : ls[x] \in Line /\ ls[x] \in Seq(Plain)
  BY LinesPlain
<1>4. f \in Rows
  BY <1>2 DEF Result
<1> HIDE DEF ls, r
<1>5. r.ok
  BY DEF r
<1>6. IsFiniteSet(DOMAIN f)
  BY <1>2, <1>5 DEF Answers
<1>7. ASSUME NEW k \in DOMAIN f PROVE IsKey(k) /\ f[k] \in Seq(Plain)
  <2>1. PICK x \in Taken(ls) : KeyOf(ls[x]) = k /\ f[k] = ValueOf(ls[x])
    BY <1>2, <1>5 DEF Answers
  <2>2. x \in 1..Len(ls) /\ ~Wrong(ls[x])
    BY <1>2, <1>5 DEF Answers, Taken
  <2>3. IsKey(k)
    BY <2>1, <2>2 DEF Wrong
  <2> DEFINE l == ls[x]  a == Split(l) + 1  z == Len(l)
  <2>4. l \in Line /\ l \in Seq(Plain)
    BY <1>3, <2>2
  <2> HIDE DEF l
  <2>5. Split(l) \in 0..Len(l) /\ Len(l) \in Nat /\ \A i \in 1..Len(l) : l[i] \in Plain
    BY <2>4, SplitIs, LenProperties, ElementOfSeq
  <2>6. a \in Int /\ z \in Int /\ \A i \in a..z : i \in 1..Len(l)
    BY <2>5
  <2>7. \A i \in a..z : l[i] \in Plain
    BY <2>5, <2>6
  <2> HIDE DEF a, z
  <2>8. SubSeq(l, a, z) \in Seq(Plain)
    BY <2>6, <2>7, SubSeqProperties
  <2>9. ValueOf(l) \in Seq(Plain)
    BY <2>8 DEF ValueOf, a, z
  <2> QED BY <2>1, <2>3, <2>9 DEF l
<1>8. Kept(f)
  BY <1>4, <1>6, <1>7 DEF Kept
<1> QED BY <1>2, <1>8 DEF r

LEMMA TextShown ==
  ASSUME raw \in Line
  PROVE  ShownIsSaved
<1> DEFINE r == Parsed(raw)  f == r.rows  t == Rendered(f)  s == Parsed(Submitted(t))
<1>1. SUFFICES ASSUME r.ok PROVE s = r
  BY DEF ShownIsSaved
<1>2. r \in Result /\ Kept(f)
  BY <1>1, RowsKept
<1> HIDE DEF r
<1>3. PICK n \in Nat : \E q : /\ Ordered(f, n, q) /\ RowLines(f, n, q) \in Seq(Seq(Plain))
                              /\ t = TextOf(RowLines(f, n, q))
  BY <1>2, RenderedText
<1>4. PICK q : /\ Ordered(f, n, q) /\ RowLines(f, n, q) \in Seq(Seq(Plain))
               /\ t = TextOf(RowLines(f, n, q))
  BY <1>3
<1> DEFINE ls == Append(RowLines(f, n, q), <<>>)
<1>5. t \in Seq(NoCR) /\ Lines(t) = ls
  BY <1>4, TextOfLines
<1>6. Lines(Submitted(t)) = ls
  BY <1>5, SubmittedLines
<1>7. /\ ParsedLines(ls) \in Result /\ ParsedLines(ls).ok = TRUE
      /\ DOMAIN ParsedLines(ls).rows = DOMAIN f
      /\ \A k \in DOMAIN f : ParsedLines(ls).rows[k] = f[k]
  BY <1>2, <1>4, RowsReadBack
<1>8. s = ParsedLines(ls)
  BY <1>6 DEF Parsed
<1> HIDE DEF ls, s
<1>9. s \in Result /\ s.ok = TRUE /\ DOMAIN s.rows = DOMAIN f /\ \A k \in DOMAIN f : s.rows[k] = f[k]
  BY <1>7, <1>8
<1>10. r.ok = TRUE
  BY <1>1, <1>2 DEF Result
<1>11. s.rows = f
  <2> DEFINE g == s.rows
  <2>1. g \in Rows /\ f \in Rows
    BY <1>2, <1>9 DEF Result
  <2>2. DOMAIN g = DOMAIN f /\ \A k \in DOMAIN f : g[k] = f[k]
    BY <1>9
  <2> HIDE DEF f, g
  <2>3. g \in [DOMAIN f -> Line] /\ f \in [DOMAIN f -> Line]
    BY <2>1, <2>2 DEF Rows
  <2>4. g = f
    BY <2>2, <2>3
  <2> QED BY <2>4 DEF g
<1> QED BY <1>2, <1>9, <1>10, <1>11 DEF Result, f

\* Saving the page as it is shown changes nothing, whatever text made the rows
\* and however long it is: secretsToRawText, a browser's CRLFs and
\* parseSecretsRaw bring the same rows back.
THEOREM ShownTextIsSaved == RawSpec => []ShownIsSaved
<1>1. raw \in Line => ShownIsSaved
  BY TextShown
<1> QED BY <1>1, RawType, PTL
=============================================================================
