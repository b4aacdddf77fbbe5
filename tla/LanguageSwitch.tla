--------------------------- MODULE LanguageSwitch ---------------------------
(***************************************************************************)
(* playground/static/i18n.js, which every page loads: switching the        *)
(* language awaits a locale file, and switches may overlap.                *)
(***************************************************************************)
EXTENDS Naturals

CONSTANTS
    Langs, English,    \* LOCALES, and "en"
    SwitchBound        \* bound of the model: calls of setLang

ASSUME LocalesNamed == English \in Langs /\ "none" \notin Langs
ASSUME SwitchBoundPositive == SwitchBound \in Nat \ {0}

VARIABLES
    cache,         \* locales loaded
    dictionary,    \* whose texts the page shows; none before the first
    current,
    calls,         \* calls of setLang that await a fetch
    latest,        \* the last choice, and its number; the first is detect()'s
    ready,         \* the promise of the first call
    misled         \* history: since then a load failed, or came out of turn

shown == <<dictionary, current>>
i18n == <<cache, shown, calls, latest, ready, misled>>

Call(lang, n) == [lang |-> lang, load |-> lang, n |-> n]

\* The first choice is what detect() finds.
LanguageInit ==
    /\ cache = {} /\ dictionary = "none" /\ current = English
    /\ latest \in [lang : Langs, n : {1}] /\ calls = {Call(latest.lang, 1)}
    /\ ready = "pending" /\ misled = FALSE

-----------------------------------------------------------------------------

AppliesChoice(lang) ==           \* mutant: the language is the choice's, not the texts'
    dictionary' = lang /\ current' = latest.lang

\* The texts; then the listeners.
Applies(lang) == dictionary' = lang /\ current' = lang

Chooses(lang) ==
    /\ latest.n < SwitchBound
    /\ latest' = [lang |-> lang, n |-> latest.n + 1]
    /\ misled' = FALSE
    /\ UNCHANGED ready

SetLang ==
    /\ \E lang \in Langs \ cache : Chooses(lang) /\ calls' = calls \cup {Call(lang, latest'.n)}
    /\ UNCHANGED <<cache, shown>>

\* No task runs between the call and its end: it awaits nothing but the cache.
SetCached ==
    /\ \E lang \in cache : Chooses(lang) /\ Applies(lang)
    /\ UNCHANGED <<cache, calls>>

Ends(call, how) ==
    /\ calls' = calls \ {call}
    /\ ready' = IF call.n = 1 THEN how ELSE ready
    /\ UNCHANGED latest

UnderWay == \E call \in calls : call.n = latest.n

Loaded(call) ==
    /\ cache' = cache \cup {call.load}
    /\ Applies(call.load) /\ Ends(call, "resolved")
    /\ misled' = (misled \/ call.load # call.lang \/ (call.n # latest.n /\ ~UnderWay))

\* The catch: English at once, if it is loaded, even where another call has
\* loaded meanwhile what this one could not.
FallsBack(call) ==
    /\ call.load # English /\ English \in cache
    /\ Applies(English) /\ Ends(call, "resolved")
    /\ misled' = TRUE
    /\ UNCHANGED cache

\* Otherwise English is fetched, or was what failed.
LoadFails(call) ==
    /\ \/ /\ call.load # English /\ English \notin cache
          /\ calls' = (calls \ {call}) \cup {[call EXCEPT !.load = English]}
          /\ UNCHANGED <<latest, ready>>
       \/ call.load = English /\ Ends(call, "rejected")
    /\ misled' = TRUE
    /\ UNCHANGED <<cache, shown>>

\* The steps that call the listeners, and the others.
Switches == SetCached \/ \E call \in calls : Loaded(call) \/ FallsBack(call)
Waits == SetLang \/ \E call \in calls : LoadFails(call)

LanguageNext == Switches \/ Waits

LanguageSpec == LanguageInit /\ [][LanguageNext]_i18n

-----------------------------------------------------------------------------
(* Properties *)

LanguageTypeOK ==
    /\ cache \subseteq Langs /\ dictionary \in Langs \cup {"none"} /\ current \in Langs
    /\ calls \subseteq [lang : Langs, load : Langs, n : 1..SwitchBound]
    /\ latest \in [lang : Langs, n : 1..SwitchBound]
    /\ ready \in {"pending", "resolved", "rejected"}
    /\ misled \in BOOLEAN

\* i18n.js: once a switch has been made, the texts shown and the language the pages ask
\* for are the same, and loaded; and it is the last choice once that has been
\* loaded, unless since then a load failed or an earlier choice came after it.
LanguagesAgree ==
    dictionary # "none" =>
        /\ dictionary = current /\ current \in cache
        /\ ~UnderWay /\ ~misled => current = latest.lang

=============================================================================
