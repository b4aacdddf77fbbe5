----------------------------- MODULE StartPage -----------------------------
(***************************************************************************)
(* The page at /start (playground/static/start.js): it waits for the first *)
(* language, loads the catalog of starters, and downloads the archive of   *)
(* the kit selected, while languages are switched and starters are rebuilt *)
(* under it.                                                               *)
(***************************************************************************)
EXTENDS LanguageSwitch, StarterBuild

VARIABLES
    rendered,      \* language of the last render()
    selected,      \* role and stack
    loading,       \* of the catalog: not asked, asked, failed, loaded
    catalog,       \* as it was read
    download,      \* the entry being downloaded
    notice,
    saved          \* what was saved, and the checksum that was shown for it

start == <<rendered, selected, loading, catalog, download, notice, saved>>

NoDownload == [kit |-> "none", entry |-> Partial]
Downloading == download # NoDownload

StartInit ==
    /\ LanguageInit /\ BuildInit
    /\ rendered = "none" /\ selected \in Kits
    /\ loading = "not asked" /\ catalog = PartialCatalog /\ download = NoDownload
    /\ notice = "none" /\ saved = {}

Render == rendered' = current

Switch ==
    /\ Waits
    /\ UNCHANGED <<build, start>>

\* The listeners are called.
SwitchArrives ==
    /\ Switches
    /\ rendered' = current'
    /\ UNCHANGED <<build, selected, loading, catalog, download, notice, saved>>

Build == BuildNext /\ UNCHANGED <<i18n, start>>

LanguageReady == ready = "resolved"

AskCatalog ==
    /\ LanguageReady /\ loading = "not asked"
    /\ Render
    /\ loading' = "asked"
    /\ UNCHANGED <<i18n, build, selected, catalog, download, notice, saved>>

\* starter_download reads the file as it is now; a broken one is no JSON.
CatalogArrives ==
    /\ loading = "asked"
    /\ IF catalogFile = PartialCatalog THEN loading' = "failed" /\ UNCHANGED catalog
       ELSE loading' = "loaded" /\ catalog' = catalogFile
    /\ Render
    /\ UNCHANGED <<i18n, build, selected, download, notice, saved>>

\* An error answer, or 15 seconds.
CatalogFails ==
    /\ loading = "asked"
    /\ loading' = "failed"
    /\ Render
    /\ UNCHANGED <<i18n, build, selected, catalog, download, notice, saved>>

Select ==
    /\ selected' \in Kits
    /\ notice' = "none"
    /\ Render
    /\ UNCHANGED <<i18n, build, loading, catalog, download, saved>>

Download ==
    /\ loading = "loaded" /\ ~Downloading
    /\ download' = [kit |-> selected, entry |-> catalog.kits[selected]]
    /\ notice' = "busy"
    /\ Render
    /\ UNCHANGED <<i18n, build, selected, loading, catalog, saved>>

NoticeAlways(text) ==            \* mutant: the selection may have changed
    notice' = text

Notice(text) == notice' = IF selected = download.kit THEN text ELSE notice

MatchesAnything(body) ==         \* mutant: bytes and checksum are not compared
    TRUE

Matches(body) == body = download.entry

\* The archive arrives, as it is now.
ArchiveArrives ==
    /\ Downloading
    /\ LET body == zip[download.kit]
       IN  IF Matches(body)
           THEN /\ saved' = saved \cup {[kit |-> download.kit, body |-> body, shown |-> download.entry]}
                /\ Notice("downloaded")
           ELSE Notice("failed") /\ UNCHANGED saved
    /\ download' = NoDownload
    /\ Render
    /\ UNCHANGED <<i18n, build, selected, loading, catalog>>

DownloadFailsBusy ==             \* mutant: no finally
    /\ Downloading
    /\ Notice("failed")
    /\ Render
    /\ UNCHANGED <<i18n, build, selected, loading, catalog, download, saved>>

\* An error answer, or 30 seconds.
DownloadFails ==
    /\ Downloading
    /\ Notice("failed")
    /\ download' = NoDownload
    /\ Render
    /\ UNCHANGED <<i18n, build, selected, loading, catalog, saved>>

StartNext ==
    \/ Switch \/ SwitchArrives \/ Build \/ AskCatalog \/ CatalogArrives \/ CatalogFails
    \/ Select \/ Download \/ ArchiveArrives \/ DownloadFails

\* Promises are handled and AbortSignal.timeout fires; a locale or an archive
\* need not arrive, and nobody has to build.
StartSpec ==
    /\ StartInit /\ [][StartNext]_<<i18n, build, start>>
    /\ WF_<<i18n, build, start>>(AskCatalog)
    /\ WF_<<i18n, build, start>>(CatalogFails)
    /\ WF_<<i18n, build, start>>(DownloadFails)

-----------------------------------------------------------------------------
(* Properties *)

StartTypeOK ==
    /\ LanguageTypeOK /\ BuildTypeOK
    /\ rendered \in Langs \cup {"none"} /\ selected \in Kits
    /\ loading \in {"not asked", "asked", "failed", "loaded"}
    /\ catalog \in [sources : Versions, kits : [Kits -> Archives]] \cup {PartialCatalog}
    /\ loading = "loaded" <=> catalog # PartialCatalog
    /\ download \in [kit : Kits, entry : Archives] \cup {NoDownload}
    /\ notice \in {"none", "busy", "downloaded", "failed"}
    /\ saved \subseteq [kit : Kits, body : Archives, shown : Archives]

\* tests/start.browser.cjs:92: nothing is saved that is not the archive whose
\* checksum was shown; so all a visitor saves without reloading comes from one
\* build, with one SOURCES.json, though the starters are rebuilt meanwhile.
SavedIsOneBuild ==
    /\ \A s \in saved : s.body = s.shown
    /\ \A s1, s2 \in saved : s1.body.sources = s2.body.sources

\* What the page says of a download, it says of the kit that is selected; it is
\* in the language the other pages use, and asked for its catalog only when it
\* had one.
PageAgrees ==
    /\ StartTypeOK
    /\ notice = "busy" => Downloading /\ download.kit = selected
    /\ notice = "downloaded" => \E s \in saved : s.kit = selected
    /\ loading # "not asked" => rendered = current /\ dictionary # "none"

\* Loading the catalog and every download come to an end, whatever the server
\* does, and a download leaves the page able to make another.
WaitsEnd ==
    /\ ready = "resolved" ~> loading \in {"failed", "loaded"}
    /\ Downloading ~> ~Downloading

=============================================================================
