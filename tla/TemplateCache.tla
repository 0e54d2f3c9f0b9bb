--------------------------- MODULE TemplateCache ---------------------------
(***************************************************************************)
(* The template cache of virt-builder shared by parallel instances:        *)
(* builder/downloader.ml (download, download_to), builder/cache.ml and     *)
(* the steps of builder/builder.ml that use the cached file.  One template *)
(* is followed through its revisions; the cache has one file per revision. *)
(* The web site replaces the template and its index entry while instances  *)
(* run, instances are killed, and virt-builder --delete-cache runs at the  *)
(* same time.                                                              *)
(***************************************************************************)
EXTENDS Integers

CONSTANTS
  Instance,      \* virt-builder processes
  MaxRevision,   \* bound on the revisions that are published
  Junk,          \* the body of an HTTP error, or a damaged template
  Partial,       \* a file that is still being downloaded
  Absent,        \* no such file
  Setups         \* what is tried: a set of Setup

Disturbance == {"publish", "junk", "network", "kill", "delete"}

\* disturb: what may go wrong in one history; entry: whether the index entry has a
\* checksum, or a sig=... line only, or neither; check: the instances that check
\* signatures (no --no-check-signature, and the source has a key).
Setup == [disturb : SUBSET Disturbance, entry : {"checksum", "signature", "nothing"},
          check : SUBSET Instance]

ASSUME ConstantsAssumption ==
  /\ MaxRevision \in Nat \ {0}
  /\ Junk \notin Nat /\ Partial \notin Nat /\ Absent \notin Nat
  /\ Junk # Partial /\ Junk # Absent /\ Partial # Absent
  /\ Setups \subseteq Setup

Revision == 1..MaxRevision
Contents == Revision \cup {Junk}   \* revision r's file is written r

VARIABLES
  setup,         \* what is tried
  \* the web site
  site_index,    \* the revision (and checksum) in the index
  site_file,     \* the contents of the template file
  site_sig,      \* the contents that the detached signature signs
  \* the cache directory
  directory,     \* does it exist?
  cache,         \* cache[r]: the file cache_of_name .. r
  temp,          \* temp[p]: filename_new, the random name of instance p
  deleting,      \* --delete-cache is running
  \* each instance
  pc,
  mode,          \* `Install or `Cache_all
  use_cache,     \* FALSE: --no-cache, or the directory could not be made
  revision,      \* revision and checksum of its index entry
  unlinks,       \* what On_exit is going to unlink
  private,       \* its own copy of the template, if it uses no cache
  sigfile,       \* what its signature file signs, Absent if it has none
  used,          \* what the guest was built from, Absent if it was not
  \* of the history
  replaced       \* instances whose file another one has renamed its own
                 \* download over, after it was verified

site == <<site_index, site_file, site_sig>>
dir_vars == <<directory, cache, temp>>
choices == <<setup, mode, use_cache>>
own == <<revision, unlinks, private, sigfile, used>>
vars == <<setup, site_index, site_file, site_sig, directory, cache, temp, deleting, pc,
          mode, use_cache, revision, unlinks, private, sigfile, used, replaced>>

May(d) == d \in setup.disturb
Checks(p) == p \in setup.check

Init ==
  /\ setup \in Setups
  /\ site_index = 1
  /\ site_file = 1
  /\ site_sig = 1
  /\ directory = FALSE
  /\ cache = [r \in Revision |-> Absent]
  /\ temp = [p \in Instance |-> Absent]
  /\ deleting = FALSE
  /\ pc = [p \in Instance |-> "start"]
  /\ mode \in [Instance -> {"install", "cache all"}]
  /\ use_cache \in [Instance -> BOOLEAN]
  /\ \A p \in Instance : mode[p] = "cache all" => use_cache[p]
  /\ revision = [p \in Instance |-> 1]
  /\ unlinks = [p \in Instance |-> {}]
  /\ private = [p \in Instance |-> Absent]
  /\ sigfile = [p \in Instance |-> Absent]
  /\ used = [p \in Instance |-> Absent]
  /\ replaced = {}

Goto(p, l) == pc' = [pc EXCEPT ![p] = l]
At(p, l) == pc[p] = l

-----------------------------------------------------------------------------
(* The web site: a new template and a new signature, then or before a new  *)
(* index entry.                                                            *)
PublishFile ==
  /\ May("publish")
  /\ site_file < MaxRevision
  /\ site_file' = site_file + 1
  /\ UNCHANGED <<site_index, site_sig, dir_vars, deleting, pc, choices, own, replaced>>

PublishSignature ==
  /\ May("publish") /\ setup.entry = "signature"
  /\ site_sig < MaxRevision
  /\ site_sig' = site_sig + 1
  /\ UNCHANGED <<site_index, site_file, dir_vars, deleting, pc, choices, own, replaced>>

PublishIndex ==
  /\ May("publish")
  /\ site_index < MaxRevision
  /\ site_index' = site_index + 1
  /\ UNCHANGED <<site_file, site_sig, dir_vars, deleting, pc, choices, own, replaced>>

-----------------------------------------------------------------------------
(* One instance.                                                           *)

(* Cache.create makes the directory; then the index is downloaded.         *)
Start(p) ==
  /\ At(p, "start")
  /\ directory' = (directory \/ use_cache[p])
  /\ revision' = [revision EXCEPT ![p] = site_index]
  /\ Goto(p, "lookup")
  /\ UNCHANGED <<site, cache, temp, deleting, choices, unlinks, private, sigfile, used,
                 replaced>>

AfterDownload(p) == IF mode[p] = "install" THEN "verify" ELSE "exiting"

(* What download returns: is the template a temporary file, which the      *)
(* caller then hands to On_exit?                                           *)
DeleteOnExit(p) == ~use_cache[p]

Unlink(p, what) == unlinks' = [unlinks EXCEPT ![p] = @ \cup what]

Return(p) ==
  /\ Goto(p, AfterDownload(p))
  /\ Unlink(p, IF mode[p] = "install" /\ DeleteOnExit(p) THEN {"template"} ELSE {})

(* Mutant: filename_new is not handed to On_exit.                          *)
Lookup_Mutant(p) ==
  /\ At(p, "lookup")
  /\ \/ /\ use_cache[p] /\ cache[revision[p]] # Absent
        /\ Return(p)
     \/ /\ ~(use_cache[p] /\ cache[revision[p]] # Absent)
        /\ Goto(p, "head")
        /\ UNCHANGED unlinks
  /\ UNCHANGED <<site, dir_vars, deleting, choices, revision, private, sigfile, used,
                 replaced>>

(* "Is the requested template name + revision in the cache already?"  If   *)
(* not, download_to hands the name it makes up to On_exit first.           *)
Lookup(p) ==
  /\ At(p, "lookup")
  /\ \/ /\ use_cache[p] /\ cache[revision[p]] # Absent
        /\ Return(p)
     \/ /\ ~(use_cache[p] /\ cache[revision[p]] # Absent)
        /\ Goto(p, "head")
        /\ Unlink(p, {"filename_new"})
  /\ UNCHANGED <<site, dir_vars, deleting, choices, revision, private, sigfile, used,
                 replaced>>

(* "Get the status code first to ensure the file exists."                  *)
HeadRequest(p) ==
  /\ At(p, "head")
  /\ Goto(p, "get")
  /\ UNCHANGED <<site, dir_vars, deleting, choices, own, replaced>>

(* Mutant: the download goes straight to the file of the cache.            *)
Get_Mutant(p) ==
  /\ At(p, "get")
  /\ directory \/ ~use_cache[p]
  /\ IF use_cache[p]
     THEN cache' = [cache EXCEPT ![revision[p]] = Partial] /\ UNCHANGED temp
     ELSE temp' = [temp EXCEPT ![p] = Partial] /\ UNCHANGED cache
  /\ Goto(p, "transfer")
  /\ UNCHANGED <<site, directory, deleting, choices, own, replaced>>

(* curl (or cp) creates the output file, which needs the directory.        *)
Get(p) ==
  /\ At(p, "get")
  /\ directory \/ ~use_cache[p]
  /\ temp' = [temp EXCEPT ![p] = Partial]
  /\ Goto(p, "transfer")
  /\ UNCHANGED <<site, directory, cache, deleting, choices, own, replaced>>

\* The status code of a GET is not looked at: the body of an error page counts.
Served(file) == {file} \cup (IF May("junk") THEN {Junk} ELSE {})

(* The transfer ends.  A file that was deleted meanwhile stays deleted.    *)
Transfer(p) ==
  /\ At(p, "transfer")
  /\ \E body \in Served(site_file) :
       temp' = [temp EXCEPT ![p] = IF @ = Absent THEN Absent ELSE body]
  /\ Goto(p, "rename")
  /\ UNCHANGED <<site, directory, cache, deleting, choices, own, replaced>>

(* Mutant: all instances use the same temporary name.                      *)
Rename_Mutant(p) ==
  /\ At(p, "rename")
  /\ temp[p] # Absent
  /\ IF use_cache[p]
     THEN /\ cache' = [cache EXCEPT ![revision[p]] = temp[p]]
          /\ UNCHANGED private
     ELSE /\ private' = [private EXCEPT ![p] = temp[p]]
          /\ UNCHANGED cache
  /\ temp' = [q \in Instance |-> Absent]
  /\ Return(p)
  /\ UNCHANGED <<site, directory, deleting, choices, revision, sigfile, used, replaced>>

Rename(p) ==
  /\ At(p, "rename")
  /\ temp[p] # Absent
  /\ IF use_cache[p]
     THEN /\ cache' = [cache EXCEPT ![revision[p]] = temp[p]]
          /\ replaced' = replaced \cup
               {q \in Instance \ {p} : /\ At(q, "use") /\ use_cache[q]
                                      /\ revision[q] = revision[p]}
          /\ UNCHANGED private
     ELSE /\ private' = [private EXCEPT ![p] = temp[p]]
          /\ UNCHANGED <<cache, replaced>>
  /\ temp' = [temp EXCEPT ![p] = Absent]
  /\ Return(p)
  /\ UNCHANGED <<site, directory, deleting, choices, revision, sigfile, used>>

Template(p) == IF use_cache[p] THEN cache[revision[p]] ELSE private[p]

(* "New-style: Using a checksum", whether signatures are checked or not.   *)
ChecksumIsGood(p) == setup.entry = "checksum" /\ Template(p) = revision[p]

Verify(p) ==
  /\ At(p, "verify")
  /\ ChecksumIsGood(p)
  /\ Goto(p, "use")
  /\ UNCHANGED <<site, dir_vars, deleting, choices, own, replaced>>

(* "Old-style: detached signature", which is downloaded to a temporary     *)
(* file from the site as it is now, even if it is not going to be checked. *)
GetSignature(p) ==
  /\ At(p, "verify")
  /\ \/ /\ setup.entry = "signature"
        /\ \E body \in Served(site_sig) : sigfile' = [sigfile EXCEPT ![p] = body]
     \/ /\ setup.entry = "nothing"
        /\ UNCHANGED sigfile
  /\ Goto(p, "detached")
  /\ UNCHANGED <<site, dir_vars, deleting, choices, revision, unlinks, private, used,
                 replaced>>

(* Mutant: it is enough that there is a signature and a template.          *)
SignatureIsGood_Mutant(p) ==
  ~Checks(p) \/ (sigfile[p] # Absent /\ Template(p) # Absent)

(* verify_detached: nothing is looked at unless signatures are checked;    *)
(* then a template needs a signature, and that of its own contents.        *)
SignatureIsGood(p) ==
  ~Checks(p) \/ (sigfile[p] \in Revision /\ Template(p) = sigfile[p])

VerifyDetached(p) ==
  /\ At(p, "detached")
  /\ SignatureIsGood(p)
  /\ Goto(p, "use")
  /\ UNCHANGED <<site, dir_vars, deleting, choices, own, replaced>>

(* The plan copies, uncompresses or resizes the template, by its name.     *)
Use(p) ==
  /\ At(p, "use")
  /\ Template(p) # Absent
  /\ used' = [used EXCEPT ![p] = Template(p)]
  /\ Goto(p, "exiting")
  /\ UNCHANGED <<site, dir_vars, deleting, choices, revision, unlinks, private, sigfile,
                 replaced>>

(* An error of any step: a bad status code, a download that fails, rename  *)
(* of a file that is gone, a template that is missing or does not match.   *)
Fail(p) ==
  /\ \/ At(p, "head") /\ May("junk")
     \/ pc[p] \in {"head", "transfer"} /\ May("network")
     \/ At(p, "get") /\ use_cache[p] /\ ~directory
     \/ At(p, "rename") /\ temp[p] = Absent
     \/ At(p, "verify") /\ setup.entry = "checksum" /\ ~ChecksumIsGood(p)
     \/ At(p, "verify") /\ setup.entry = "signature" /\ (May("junk") \/ May("network"))
     \/ At(p, "detached") /\ ~SignatureIsGood(p)
     \/ At(p, "use") /\ Template(p) = Absent
  /\ Goto(p, "failing")
  /\ UNCHANGED <<site, dir_vars, deleting, choices, own, replaced>>

(* On_exit removes the temporary directory, where the private copy is and  *)
(* a download that is not for the cache, and unlinks what it was handed.   *)
Exit(p) ==
  /\ pc[p] \in {"exiting", "failing"}
  /\ temp' = [temp EXCEPT ![p] =
                IF ~use_cache[p] \/ "filename_new" \in unlinks[p] THEN Absent ELSE @]
  /\ private' = [private EXCEPT ![p] = Absent]
  /\ cache' = IF use_cache[p] /\ "template" \in unlinks[p]
              THEN [cache EXCEPT ![revision[p]] = Absent] ELSE cache
  /\ Goto(p, IF At(p, "exiting") THEN "done" ELSE "failed")
  /\ UNCHANGED <<site, directory, deleting, choices, revision, unlinks, sigfile, used,
                 replaced>>

Kill(p) ==
  /\ May("kill")
  /\ pc[p] \notin {"done", "failed", "killed"}
  /\ Goto(p, "killed")
  /\ UNCHANGED <<site, dir_vars, deleting, choices, own, replaced>>

-----------------------------------------------------------------------------
(* virt-builder --delete-cache, Cache.clean_cachedir: rm -rf deletes the   *)
(* files it finds one by one and at last the directory, unless a new file  *)
(* has appeared in it.                                                     *)

DeleteBegin ==
  /\ May("delete")
  /\ directory
  /\ ~deleting
  /\ deleting' = TRUE
  /\ UNCHANGED <<site, dir_vars, pc, choices, own, replaced>>

DeleteFile ==
  /\ deleting
  /\ \/ /\ \E r \in Revision : cache[r] # Absent
                               /\ cache' = [cache EXCEPT ![r] = Absent]
        /\ UNCHANGED temp
     \/ /\ \E p \in Instance : temp[p] # Absent /\ use_cache[p]
                               /\ temp' = [temp EXCEPT ![p] = Absent]
        /\ UNCHANGED cache
  /\ UNCHANGED <<site, directory, deleting, pc, choices, own, replaced>>

EmptyDirectory ==
  /\ \A r \in Revision : cache[r] = Absent
  /\ \A p \in Instance : use_cache[p] => temp[p] = Absent

DeleteEnd ==
  /\ deleting
  /\ deleting' = FALSE
  /\ directory' = ~EmptyDirectory
  /\ UNCHANGED <<site, cache, temp, pc, choices, own, replaced>>

-----------------------------------------------------------------------------
Build(p) ==
  \/ Start(p) \/ Lookup(p) \/ HeadRequest(p) \/ Get(p) \/ Transfer(p) \/ Rename(p)
  \/ Verify(p) \/ GetSignature(p) \/ VerifyDetached(p) \/ Use(p) \/ Fail(p) \/ Exit(p)

Next ==
  \/ PublishFile \/ PublishSignature \/ PublishIndex
  \/ \E p \in Instance : Build(p) \/ Kill(p)
  \/ DeleteBegin \/ DeleteFile \/ DeleteEnd

Spec == Init /\ [][Next]_vars

(* Every instance keeps running until it ends.                             *)
FairSpec == Spec /\ \A p \in Instance : WF_vars(Build(p))

-----------------------------------------------------------------------------
(* "To avoid partial downloads in the cache": whatever is killed, fails or *)
(* is deleted, and however many instances download the same template, a    *)
(* file with a final name has been downloaded to its end.                  *)
NoPartialInCache == \A r \in Revision : cache[r] # Partial

(* However an instance ends, unless it is killed, and however many use the *)
(* cache with it: the download that it began is gone, its private copy is  *)
(* gone, and what is in the cache, which they share, stays.  (On_exit in   *)
(* download_to and main, downloader.ml 80, builder.ml 191, 318.)           *)
EndsCleanly ==
  [][\A p \in Instance :
       pc'[p] # pc[p] /\ pc'[p] \in {"done", "failed"} =>
         temp'[p] = Absent /\ private'[p] = Absent /\ cache' = cache]_vars

(* What a guest is built from was verified, whatever the site serves and   *)
(* whatever was left in the cache: it has the checksum of the index entry, *)
(* even with --no-check-signature; without a checksum it is what the       *)
(* signature signs, if signatures are checked; and nothing is promised if  *)
(* they are not.  The file is verified and then used by its name, which    *)
(* leaves one way around this: a parallel instance that found the cache    *)
(* empty before and renames its own download of the same revision over the *)
(* file.  (builder.ml 321-354)                                             *)
Promised(p, t) ==
  /\ setup.entry = "checksum" => t = revision[p]
  /\ setup.entry # "checksum" /\ Checks(p) => t \in Revision /\ t = sigfile[p]

UsedWasVerified ==
  \A p \in Instance \ replaced : used[p] # Absent => Promised(p, used[p])

(* Instances do not disturb each other, and one that is killed in the      *)
(* middle of a download does not block the template for the others: where  *)
(* the site and the network work and nobody deletes the cache, every       *)
(* instance that is left alone gets its template and succeeds, unless it   *)
(* checks signatures and there is none.                                    *)
NotKilledSucceeds ==
  /\ setup.disturb \cap {"publish", "junk", "network"} = {}
  /\ []~deleting
  => \A p \in Instance : (setup.entry = "nothing" /\ Checks(p))
                        \/ <>(pc[p] \in {"done", "killed"})
=============================================================================
