--------------------------- MODULE MCHousekeeping ---------------------------
(***************************************************************************)
(* Eight parts of the server that share no state, checked in one run.      *)
(* focus is chosen once: that part moves, the others keep their initial    *)
(* state.  As no part reads what another writes, what holds of each part   *)
(* alone holds of all of them together.                                    *)
(***************************************************************************)
EXTENDS LogRotation, ModelCatalog, Settings, UsageBooks, LiveThreads,
        RoutedCredits, AccountRanking, AccountLogin

VARIABLE focus

vars == <<focus, logVars, catalogVars, settingsVars, booksVars, threadsVars,
          creditsVars, rankingVars, loginVars>>

Parts == {"log", "catalog", "settings", "books", "threads", "credits", "ranking", "login"}

(* A candidate that has manual priority is not compared by its credits.    *)
MCCandidates ==
    {c \in [manual: BOOLEAN, urgency: {0, 1}, pressure: {0, 1, 2}, used: {0, 1}] :
        c.manual => c.urgency = 0}

(* Of the parts that may start in many states, one that rests has one.     *)
SettingsStart == SettingsInit /\ (focus # "settings" => row = DefaultMode)

RankingStart ==
    IF focus = "ranking" THEN RankingInit
    ELSE /\ facts = [a \in Ranked |-> CHOOSE c \in Candidates : TRUE]
         /\ order = <<>>
         /\ scan = [pass |-> 1]

Init ==
    /\ focus \in Parts
    /\ LogInit /\ CatalogInit /\ SettingsStart /\ BooksInit
    /\ ThreadsInit /\ CreditsInit /\ RankingStart /\ LoginInit

Rest(part, partVars) == IF focus = part THEN TRUE ELSE UNCHANGED partVars

Next ==
    /\ UNCHANGED focus
    /\ \/ focus = "log" /\ LogNext
       \/ focus = "catalog" /\ CatalogNext
       \/ focus = "settings" /\ SettingsNext
       \/ focus = "books" /\ BooksNext
       \/ focus = "threads" /\ ThreadsNext
       \/ focus = "credits" /\ CreditsNext
       \/ focus = "ranking" /\ RankingNext
       \/ focus = "login" /\ LoginNext
    /\ Rest("log", logVars) /\ Rest("catalog", catalogVars)
    /\ Rest("settings", settingsVars) /\ Rest("books", booksVars)
    /\ Rest("threads", threadsVars) /\ Rest("credits", creditsVars)
    /\ Rest("ranking", rankingVars) /\ Rest("login", loginVars)

(* The fairness of the three parts that have liveness properties, for the  *)
(* behaviours in which they move.                                          *)
Fairness ==
    /\ \A r \in Refreshers : WF_catalogVars(focus = "catalog" /\ Refresh(r))
    /\ SF_catalogVars(focus = "catalog" /\ \E r \in Refreshers : WatchModels(r))
    /\ SF_settingsVars(focus = "settings" /\ BeginReload)
    /\ SF_settingsVars(focus = "settings" /\ ReadRow)
    /\ WF_settingsVars(focus = "settings" /\ ApplyReload)
    /\ WF_settingsVars(focus = "settings" /\ SaveFastMode)
    /\ \A r \in Relays : WF_settingsVars(focus = "settings" /\ (EnterLoop(r) \/ RestartRelay(r)))
    /\ \A p \in Pages : WF_loginVars(focus = "login" /\ (PageShown(p) \/ PageFails(p)))
    /\ \A n \in Logins :
         WF_loginVars(focus = "login" /\ poller[n] # "exchange" /\ (RunPoller(n) \/ FinishLogin(n)))

Spec == Init /\ [][Next]_vars /\ Fairness

(* The parts keep their types, each of which bounds what counts: numbers   *)
(* of archives, client versions, channels, sums, pollers.                  *)
TypeOK ==
    /\ LogTypeOK /\ CatalogTypeOK /\ SettingsTypeOK /\ BooksTypeOK
    /\ ThreadsTypeOK /\ CreditsTypeOK /\ LoginTypeOK
=============================================================================
