--------------------------- MODULE ServicesProofs ---------------------------
(***************************************************************************)
(* The components that MCServices puts beside each other keep what they    *)
(* promise there: whatever runs, every step is a step of one component,    *)
(* and the others stutter.                                                 *)
(***************************************************************************)
EXTENDS MCServices, AccessProofs, AnswerProofs, ViewProofs, StoreProofs

ServicesStep == [ServicesNext]_servicesVars

\* Every step is one of each component or leaves its variables alone.
LEMMA StepsAreApart ==
    ASSUME ServicesStep
    PROVE  /\ [AccountsNext]_accountsVars /\ [LoginNext]_loginVars
           /\ [ChatNext]_chatVars /\ [ProgressNext]_progressVars
           /\ [EmbNext]_embVars /\ [HarnessNext]_harnessVars
           /\ [GraphNext]_graphVars /\ [SourcesNext]_sourcesVars
  BY DEF ServicesStep, ServicesNext, servicesVars, Alone, InAccounts, InLogin, InChat, InProgress,
     InEmbeddings, InHarness, InGraph, InSources

\* Each component behaves beside the others as its own specification says, so that
\* what is proved of it holds of what ServicesSpec runs.
THEOREM ComponentsKeepApart ==
    ServicesSpec => /\ AccountsSpec /\ LoginSpec /\ ChatSpec /\ ProgressSpec
                    /\ EmbSpec /\ HarnessSpec /\ GraphSpec /\ SourcesSpec
<1>1. ServicesInit => /\ AccountsInit /\ LoginInit /\ ChatInit /\ ProgressInit
                      /\ EmbInit /\ HarnessInit /\ GraphInit /\ SourcesInit
  BY DEF ServicesInit
<1>2. [ServicesNext]_servicesVars =>
           /\ [AccountsNext]_accountsVars /\ [LoginNext]_loginVars
           /\ [ChatNext]_chatVars /\ [ProgressNext]_progressVars
           /\ [EmbNext]_embVars /\ [HarnessNext]_harnessVars
           /\ [GraphNext]_graphVars /\ [SourcesNext]_sourcesVars
  BY StepsAreApart DEF ServicesStep
<1>3. QED
  BY <1>1, <1>2, PTL DEF ServicesSpec, AccountsSpec, LoginSpec, ChatSpec, ProgressSpec, EmbSpec,
     HarnessSpec, GraphSpec, SourcesSpec

\* All components beside each other keep their types.
THEOREM ServicesTyped == ServicesSpec => []ServicesTypeOK
<1>1. /\ AccountsTypeOK /\ LoginTypeOK /\ ChatTypeOK /\ ProgressTypeOK
      /\ EmbTypeOK /\ HarnessTypeOK /\ GraphTypeOK /\ SourcesTypeOK
      => ServicesTypeOK
  BY DEF ServicesTypeOK
<1>2. QED
  BY <1>1, ComponentsKeepApart, AccountsTyped, LoginTyped, ChatTyped, ProgressTyped,
     EmbeddingsTyped, HarnessTyped, GraphTyped, SourcesTyped, PTL
=============================================================================
