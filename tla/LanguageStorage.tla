-------------------------- MODULE LanguageStorage --------------------------
(***************************************************************************)
(* What a switch of the language leaves for the next page: the parameter   *)
(* of the address and the localStorage that detect() reads.  The storage   *)
(* may refuse a write, and is that of all tabs.                            *)
(***************************************************************************)
EXTENDS LanguageSwitch

VARIABLES
    url, stored,
    kept           \* history: the storage has what the last switch wrote

storage == <<url, stored, kept>>

\* detect(); with neither, the browser's language.
Detected == IF url # "none" THEN url ELSE stored

StorageInit ==
    /\ LanguageInit
    /\ url \in Langs \cup {"none"} /\ stored \in Langs \cup {"none"}
    /\ Detected \in {"none", latest.lang}
    /\ kept = FALSE

\* One step with the texts; the address names no English.
Stored ==
    /\ Switches
    /\ url' = IF current' = English THEN "none" ELSE current'
    /\ \/ stored' = current' /\ kept' = TRUE
       \/ kept' = FALSE /\ UNCHANGED stored

NotYet == Waits /\ UNCHANGED storage

OtherTabStores ==
    /\ stored' \in Langs /\ kept' = FALSE
    /\ UNCHANGED <<i18n, url>>

StorageNext == Stored \/ NotYet \/ OtherTabStores

StorageSpec == StorageInit /\ [][StorageNext]_<<i18n, storage>>

-----------------------------------------------------------------------------
(* Properties *)

StorageTypeOK ==
    /\ LanguageTypeOK
    /\ url \in Langs \cup {"none"} /\ stored \in Langs \cup {"none"}
    /\ kept \in BOOLEAN

\* i18n.js: after a switch a reload of the page detects the language it shows,
\* but for English that the storage did not take, or lost to another tab: the
\* address does not name it.
ReloadAgrees ==
    dictionary # "none" /\ (current # English \/ kept) => Detected = current

=============================================================================
