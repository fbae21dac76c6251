----------------------------- MODULE MCServices -----------------------------
(***************************************************************************)
(* The components beside the jobs, for TLC.  They share no state, so that  *)
(* an instance of all of them together would only multiply their states:   *)
(* focus says which one runs, and the others stay as they begin.           *)
(***************************************************************************)
EXTENDS Accounts, Login, Chat, Progress, Embeddings, Harness, Graph, Sources, TLC

CONSTANTS a1, a2, a3, b1, b2, m1, m2

VARIABLE focus

\* Values for CONSTANTS that are functions.
OneEmail == [a \in Attempts |-> CHOOSE e \in Emails : TRUE]
Dimensions == (m1 :> 1 @@ m2 :> 2)

Symmetry == Permutations({a1, a2, a3}) \cup Permutations({b1, b2})

-----------------------------------------------------------------------------
servicesVars == <<focus, accountsVars, loginVars, chatVars, progressVars, embVars,
                  harnessVars, graphVars, sourcesVars>>

ServicesInit ==
    /\ AccountsInit /\ LoginInit /\ ChatInit /\ ProgressInit
    /\ EmbInit /\ HarnessInit /\ GraphInit /\ SourcesInit
    /\ focus \in {"accounts", "login", "chat", "progress",
                  "embeddings", "harness", "graph", "sources"}
    /\ focus # "embeddings" => conf.model = m1
    /\ focus # "harness" => phase = "step"
    /\ focus # "progress" => ~lint

\* A step of one component; rest, the variables of the others.
Alone(f, Step, rest) == focus = f /\ Step /\ UNCHANGED <<focus, rest>>

InAccounts(Step) == Alone("accounts", Step,
    <<loginVars, chatVars, progressVars, embVars, harnessVars, graphVars, sourcesVars>>)
InLogin(Step) == Alone("login", Step,
    <<accountsVars, chatVars, progressVars, embVars, harnessVars, graphVars, sourcesVars>>)
InChat(Step) == Alone("chat", Step,
    <<accountsVars, loginVars, progressVars, embVars, harnessVars, graphVars, sourcesVars>>)
InProgress(Step) == Alone("progress", Step,
    <<accountsVars, loginVars, chatVars, embVars, harnessVars, graphVars, sourcesVars>>)
InEmbeddings(Step) == Alone("embeddings", Step,
    <<accountsVars, loginVars, chatVars, progressVars, harnessVars, graphVars, sourcesVars>>)
InHarness(Step) == Alone("harness", Step,
    <<accountsVars, loginVars, chatVars, progressVars, embVars, graphVars, sourcesVars>>)
InGraph(Step) == Alone("graph", Step,
    <<accountsVars, loginVars, chatVars, progressVars, embVars, harnessVars, sourcesVars>>)
InSources(Step) == Alone("sources", Step,
    <<accountsVars, loginVars, chatVars, progressVars, embVars, harnessVars, graphVars>>)

ServicesNext ==
    \/ InAccounts(AccountsNext)
    \/ InLogin(LoginNext)
    \/ InChat(ChatNext)
    \/ InProgress(ProgressNext)
    \/ InEmbeddings(EmbNext)
    \/ InHarness(HarnessNext)
    \/ InGraph(GraphNext)
    \/ InSources(SourcesNext)

ServicesSpec == ServicesInit /\ [][ServicesNext]_servicesVars

\* What b does of itself, whichever component runs: without waiting for a lock, and in
\* a transaction that waits for locks of others.
GoesOn(b) == \/ InChat(TurnStep(b))
             \/ InProgress(StreamStep(b))
             \/ InSources(UploadStep(b))
Transacts(b) == InAccounts(RequestStep(b)) \/ InEmbeddings(TxnStep(b))

\* Code that runs goes on running; where transactions wait for each other's locks, one
\* that can go on again and again does at last.
ServicesFairSpec ==
    /\ ServicesSpec
    /\ \A b \in {b1, b2} : WF_servicesVars(GoesOn(b)) /\ SF_servicesVars(Transacts(b))
    /\ WF_servicesVars(\/ InChat(GcStep)
                       \/ InProgress(Publish)
                       \/ InHarness(HarnessNext)
                       \/ InGraph(ViewStep))

-----------------------------------------------------------------------------
\* Every variable of every component has its type.
ServicesTypeOK ==
    /\ AccountsTypeOK /\ LoginTypeOK /\ ChatTypeOK /\ ProgressTypeOK
    /\ EmbTypeOK /\ HarnessTypeOK /\ GraphTypeOK /\ SourcesTypeOK

Unfinished(b) ==
    \/ focus = "accounts" /\ b \in Busy
    \/ focus = "chat" /\ b \in Underway
    \/ focus = "progress" /\ b \in Attending
    \/ focus = "embeddings" /\ b \in Running
    \/ focus = "sources" /\ b \in Unanswered
    \/ focus = "harness" /\ phase \notin {"done", "raised"}
    \/ focus = "graph" /\ view # "none"

\* Whatever is begun ends, whatever it waits for and whoever waits for it: a request of
\* the accounts, a turn of the chat, the stream of a job that ends, a transaction about
\* vectors, an upload, a run of the harness, a view of the links.  Locks that are waited
\* for in a cycle are no end of it, as the server aborts one of the transactions.
EverythingEnds == \A b \in {b1, b2} : Unfinished(b) ~> ~Unfinished(b)
=============================================================================
