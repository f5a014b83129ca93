------------------------------ MODULE Updates ------------------------------
(***************************************************************************)
(* The download service of the browser: how it is connected and            *)
(* disconnected (electron/update-service.ts, electron/update-bootstrap.ts  *)
(* and the start in electron/main.ts), and what a check for updates is     *)
(* worth when the installer arrives (electron/download-verify.ts,          *)
(* openDownload()).  An endpoint with its token is one value, and so are   *)
(* the bytes of a file with their length and checksum.                     *)
(***************************************************************************)
EXTENDS Naturals, Absent

CONSTANTS
  Endpoints, \* download services, with an access token
  Bundled,   \* the one a version of the browser may come with
  Contents,  \* of files
  Downloads, \* files being downloaded
  Releases   \* versions, each with a file name of its own

VARIABLES
  up,        \* the process runs
  settings,  \* update-service.enc: None, an endpoint, or unreadable
  disabled,  \* update-service.enc.disabled
  bundle,    \* private-browser-update.json is in the resources
  service,   \* UpdateServiceStore.config
  unreadable,\* UpdateServiceStore.corrupt
  encrypts,  \* the system encrypts for the browser
  off,       \* history: the user disconnected last
  published, \* history: the manifests the service has had
  expected,  \* expectedInstaller
  file,      \* each download
  ran        \* downloads openDownload() gave to the system

connectionVars == <<up, settings, disabled, bundle, service, unreadable, encrypts, off>>
fileVars       == <<published, expected, file, ran>>
updateVars     == <<connectionVars, fileVars>>

Manifest == [filename : Releases, bytes : Contents]
File == [filename : Releases \cup {None}, bytes : Contents, saved : {"program", "document"},
         done : BOOLEAN, against : Manifest \cup {None},
         checksum : {"none", "checking", "verified", "mismatch"}]

ASSUME UpdatesAssumption ==
  /\ Bundled \in Endpoints /\ None \notin Endpoints /\ None \notin Manifest /\ None \notin File

UpdatesTypeOK ==
  /\ settings \in Endpoints \cup {None} /\ service \in Endpoints \cup {None}
  /\ up \in BOOLEAN /\ disabled \in BOOLEAN /\ bundle \in BOOLEAN /\ unreadable \in BOOLEAN
  /\ encrypts \in BOOLEAN /\ off \in BOOLEAN
  /\ published \subseteq Manifest /\ expected \in Manifest \cup {None}
  /\ file \in [Downloads -> File \cup {None}] /\ ran \subseteq Downloads

UpdatesInit ==
  /\ up = FALSE /\ settings = None /\ disabled = FALSE /\ bundle = TRUE /\ service = None
  /\ unreadable = FALSE /\ encrypts = TRUE /\ off = FALSE
  /\ published = {} /\ expected = None /\ file = [d \in Downloads |-> None] /\ ran = {}
-----------------------------------------------------------------------------
(* The connection.                                                         *)

\* configure(): the marker goes, then the file is written
Configure(e) ==
  /\ up /\ encrypts
  /\ service' = e /\ unreadable' = FALSE /\ disabled' = FALSE /\ settings' = e /\ off' = FALSE
  /\ UNCHANGED <<up, bundle, encrypts, fileVars>>

\* clear(): the file goes, then the marker is written
Disconnect ==
  /\ up /\ service' = None /\ unreadable' = FALSE /\ settings' = None /\ disabled' = TRUE /\ off' = TRUE
  /\ UNCHANGED <<up, bundle, encrypts, fileVars>>

(* bootstrap(): not over a connection, an unreadable file or the marker.   *)
Bootstraps == bundle /\ settings = None /\ ~disabled /\ encrypts

\* load(): nothing is read while the system does not encrypt
Loaded(broken) == IF broken \/ ~encrypts THEN None ELSE settings

(* The start: load(), then bootstrap(); the bundle goes whatever happened, *)
(* if it can be removed.  An update brings another one.                    *)
Launch(broken, removed, updated) ==
  /\ up' = TRUE /\ (broken => encrypts /\ settings # None)
  /\ unreadable' = broken
  /\ service' = IF Bootstraps THEN Bundled ELSE Loaded(broken)
  /\ settings' = IF Bootstraps THEN Bundled ELSE settings
  /\ bundle' = (updated \/ (bundle /\ ~removed))
  /\ expected' = None /\ file' = [d \in Downloads |-> None] /\ ran' = {}
  /\ UNCHANGED <<disabled, encrypts, off, published>>

(* The process stops between the two writes of configure() or of clear().  *)
ConfigureTorn ==
  /\ up /\ encrypts /\ up' = FALSE /\ disabled' = FALSE /\ off' = FALSE
  /\ UNCHANGED <<settings, bundle, service, unreadable, encrypts, fileVars>>

DisconnectTorn ==
  /\ up /\ up' = FALSE /\ settings' = None /\ service' = None /\ off' = TRUE
  /\ UNCHANGED <<disabled, bundle, unreadable, encrypts, fileVars>>

\* what safeStorage.isEncryptionAvailable() says from now on
SystemChanges ==
  /\ encrypts' = ~encrypts
  /\ UNCHANGED <<up, settings, disabled, bundle, service, unreadable, off, fileVars>>
-----------------------------------------------------------------------------
(* checkForUpdates(): a manifest that validateManifest() accepts.  The     *)
(* service may have gone back to an earlier one.                           *)
CheckForUpdates(m) ==
  /\ up /\ expected' = m /\ published' = published \cup {m}
  /\ UNCHANGED <<connectionVars, file, ran>>

\* will-download, from the download page or any other
DownloadBegins(d, name, bytes) ==
  /\ up /\ file[d] = None
  /\ file' = [file EXCEPT ![d] = [filename |-> name, bytes |-> bytes, saved |-> "program",
                                 done |-> FALSE, against |-> None, checksum |-> "none"]]
  /\ UNCHANGED <<connectionVars, published, expected, ran>>

\* verifyDownload() of a file with the name of the installer that is expected now
Compares(f) == expected # None /\ expected.filename = f.filename

\* done: the user has chosen a name; completed, whether or not it is checked yet
DownloadDone(d, saved) ==
  /\ up /\ file[d] # None /\ ~file[d].done
  /\ file' = [file EXCEPT ![d] =
       [@ EXCEPT !.done = TRUE, !.saved = saved,
                 !.against = IF Compares(file[d]) THEN expected ELSE None,
                 !.checksum = IF Compares(file[d]) THEN "checking" ELSE "none"]]
  /\ UNCHANGED <<connectionVars, published, expected, ran>>

\* the hash is there, or the file could not be read
ChecksumKnown(d, readable) ==
  /\ up /\ file[d] # None /\ file[d].checksum = "checking"
  /\ file' = [file EXCEPT ![d].checksum =
       CASE ~readable -> "none"
         [] readable /\ file[d].against.bytes = file[d].bytes -> "verified"
         [] OTHER -> "mismatch"]
  /\ UNCHANGED <<connectionVars, published, expected, ran>>

(* A variant of MayOpen: only what is known to be wrong is held back.      *)
MayOpenUnlessMismatch(f) == f.checksum # "mismatch"

\* openDownload(): the saved name decides what may run
MayOpen(f) ==
  f.checksum # "mismatch" /\ (f.saved = "program" => f.checksum = "verified")

OpenDownload(d) ==
  /\ up /\ file[d] # None /\ file[d].done /\ MayOpen(file[d])
  /\ ran' = ran \cup {d}
  /\ UNCHANGED <<connectionVars, published, expected, file>>

UpdatesNext ==
  \/ \E e \in Endpoints : Configure(e)
  \/ \E broken, removed, updated \in BOOLEAN : Launch(broken, removed, updated)
  \/ Disconnect \/ ConfigureTorn \/ DisconnectTorn \/ SystemChanges
  \/ \E m \in Manifest : CheckForUpdates(m)
  \/ \E d \in Downloads :
       \/ \E name \in Releases \cup {None}, bytes \in Contents : DownloadBegins(d, name, bytes)
       \/ \E saved \in {"program", "document"} : DownloadDone(d, saved)
       \/ \E readable \in BOOLEAN : ChecksumKnown(d, readable)
       \/ OpenDownload(d)
-----------------------------------------------------------------------------
(* The browser itself starts a program only when its bytes are those of a  *)
(* manifest the service has had: neither while the checksum is not known   *)
(* yet, nor after a newer manifest replaced the one it is compared with,   *)
(* nor under another name (openDownload()).                                *)
RunsWhatWasPublished ==
  \A d \in ran : file[d].saved = "program" =>
    [filename |-> file[d].filename, bytes |-> file[d].bytes] \in published

(* Disconnected is disconnected until the user connects again.  False: a   *)
(* crash between the two writes of clear() leaves no marker, and the next  *)
(* bundle connects again.                                                  *)
StaysDisconnected == off => service = None

UpdatesSpec == UpdatesInit /\ [][UpdatesNext]_updateVars
=============================================================================
