-------------------------------- MODULE Files --------------------------------
(* The files behind a media request, in src/api/openai_routes.py, media_files *)
(* and the janitor: reference images written to a temporary directory under a *)
(* name made of what they contain, the uploads of an edit under a name of     *)
(* their own, results kept until the janitor sweeps them and handed out as a  *)
(* signed link or as bytes, with its path; a caller may name such a path as   *)
(* its own reference. A failed attempt is replayed on another account         *)
(* (failover.py): the whole handler runs again on the same upload objects.    *)
(* Tabs and sites are the subject of WorkerPool, Turn and Media; here a       *)
(* request waits for a tab, uses it and lets it go.                           *)
EXTENDS Integers, FiniteSets, Sequences, Functions

CONSTANTS Requests,  \* the media requests
          Images,    \* what callers send
          Prefix,    \* the first 100 characters of an image's base64 text
          TTL,       \* IMAGE_RETENTION_MINUTES, in ticks
          Attempts,  \* accounts a request is tried on
          Keyed,     \* an API or admin token is configured
          MaxBoots   \* bound: starts of the gateway

ASSUME FilesAssumption ==
    /\ TTL \in Nat \ {0} /\ Attempts \in Nat \ {0} /\ MaxBoots \in Nat
    /\ DOMAIN Prefix = Images /\ Keyed \in BOOLEAN

VARIABLES disk,   \* the swept directories: path -> [data, age]
          job,    \* each request's handler
          boot    \* starts of the gateway so far; the fallback key is new in each

fileVars == <<disk, job, boot>>

None == "none"
NoPath == <<>>
Kinds == {"generate", "edit", "video"}
Unreadable == "unreadable"      \* an upload Pillow cannot parse
Formats == {"png", "jpeg"}
Answers == {None, "url", "b64", "400", "422", "429", "500", "503"}

Upload(r, i) == <<"edit", r, i>>
Reference(x) == <<"file", Prefix[x]>>
Result(r) == <<"result", r>>
Converted(r) == <<"converted", r>>
Product(r, format) == <<"product", r, format>>

Temporary == {Upload(r, i) : r \in Requests, i \in 1..2} \cup {Reference(x) : x \in Images}
Paths == Temporary \cup {Result(r) : r \in Requests} \cup {Converted(r) : r \in Requests}

NoLink == <<>>
Idle == [step |-> None, kind |-> None, images |-> <<>>, local |-> NoPath, read |-> 0, paths |-> <<>>,
         sent |-> <<>>, tries |-> 0, error |-> None, answer |-> None, link |-> NoLink]

Write(d, path, data) ==
    [p \in DOMAIN d \cup {path} |-> IF p = path THEN [data |-> data, age |-> 0] ELSE d[p]]
Without(d, gone) == Restrict(d, DOMAIN d \ gone)
Content(path) == IF path \in DOMAIN disk THEN disk[path].data ELSE None

At(r, step) == job[r].step = step
Change(r, new) == job' = [job EXCEPT ![r] = new]

-------------------------------------------------------------------------------
(* The request comes in. *)

\* What a caller may send: one reference at most for a new picture or video, one
\* or two files for an edit.
Given(kind) ==
    IF kind = "edit"
    THEN {<<x>> : x \in Images \cup {Unreadable}} \cup {<<x, y>> : x \in Images, y \in Images \cup {Unreadable}}
    ELSE {<<>>} \cup {<<x>> : x \in Images}

\* local_path of the answers so far: results, and converted ones.
Told == UNION {{Result(q), Converted(q)} : q \in {x \in Requests : job[x].answer \in {"url", "b64"}}}

\* A new picture or video may name a path another answer told, in place of an image.
Begin(r) ==
    /\ At(r, None)
    /\ \E kind \in Kinds, local \in {NoPath} \cup Told : \E images \in Given(kind) :
          /\ local # NoPath => kind # "edit" /\ images = <<>>
          /\ Change(r, [Idle EXCEPT !.step = "save", !.kind = kind, !.images = images,
                                    !.local = local, !.tries = 1])
    /\ UNCHANGED <<disk, boot>>

\* _cleanup_paths, and the finally of an edit: the files of this attempt go.
Cleaned(r) == Without(disk, Range(job[r].paths))

\* The call is answered: what the handler held is gone with it.
Answered(r, answer, link) ==
    [job[r] EXCEPT !.step = "done", !.answer = answer, !.link = link,
                   !.paths = <<>>, !.sent = <<>>, !.read = 0, !.tries = 0, !.error = None]

Finish(r, answer, link) ==
    /\ disk' = Cleaned(r)
    /\ Change(r, Answered(r, answer, link))
    /\ UNCHANGED boot

\* Mutant: the uploads are not rewound.
ReplayUnwound(r, error) ==
    /\ disk' = Cleaned(r)
    /\ Change(r, [job[r] EXCEPT !.step = "save", !.paths = <<>>, !.sent = <<>>,
                                !.tries = @ + 1, !.error = error])
    /\ UNCHANGED boot

\* retry_across_accounts: the handler starts over, the uploads rewound.
Replay(r, error) ==
    /\ disk' = Cleaned(r)
    /\ Change(r, [job[r] EXCEPT !.step = "save", !.paths = <<>>, !.sent = <<>>,
                                !.tries = @ + 1, !.error = error, !.read = 0])
    /\ UNCHANGED boot

\* A failure another account may make up for, while there is one.
Fail(r, error) ==
    IF job[r].tries < Attempts THEN Replay(r, error) ELSE Finish(r, error, NoLink)

-------------------------------------------------------------------------------
(* Files on their way in. *)

\* The request names a file that is there.
Named(r) == job[r].local # NoPath /\ job[r].local \in DOMAIN disk

\* _download_reference_images: a data URL is decoded, an http URL fetched, a local
\* file is taken as it is; what cannot be is skipped, and a video that needs an
\* image is then refused.
Fetch(r) ==
    /\ At(r, "save") /\ job[r].kind # "edit"
    /\ LET images == job[r].images
           given  == images # <<>> \/ job[r].local # NoPath
       IN  \/ /\ images # <<>>
              /\ disk' = Write(disk, Reference(images[1]), images[1])
              /\ Change(r, [job[r] EXCEPT !.step = "queue", !.paths = <<Reference(images[1])>>])
              /\ UNCHANGED boot
           \/ /\ Named(r)
              /\ Change(r, [job[r] EXCEPT !.step = "queue", !.paths = <<job[r].local>>])
              /\ UNCHANGED <<disk, boot>>
           \/ /\ ~Named(r) /\ (given => job[r].kind = "generate")
              /\ Change(r, [job[r] EXCEPT !.step = "queue"])
              /\ UNCHANGED <<disk, boot>>
           \/ /\ given /\ ~Named(r) /\ job[r].kind = "video"
              /\ Finish(r, "400", NoLink)

\* dest: a fresh uuid for each upload.
UploadPath(r, i) == Upload(r, i)

\* One turn of create_image_edit's loop. An upload that was read before and not
\* rewound is empty; an empty or unreadable one ends the request.
Save(r) ==
    /\ At(r, "save") /\ job[r].kind = "edit"
    /\ LET i == Len(job[r].paths) + 1
           x == job[r].images[i]
       IN  \/ (x = Unreadable \/ job[r].read >= i) /\ Finish(r, "400", NoLink)
           \/ /\ x # Unreadable /\ job[r].read < i
              /\ disk' = Write(disk, UploadPath(r, i), x)
              /\ Change(r, [job[r] EXCEPT !.paths = Append(@, UploadPath(r, i)), !.read = i,
                             !.step = IF i = Len(job[r].images) THEN "queue" ELSE "save"])
              /\ UNCHANGED boot

-------------------------------------------------------------------------------
(* On a tab. *)

\* The tab is there, the browser takes the files from disk and the prompt goes.
Send(r) ==
    /\ At(r, "queue")
    /\ Change(r, [job[r] EXCEPT !.step = "made",
                                !.sent = [i \in DOMAIN job[r].paths |-> Content(job[r].paths[i])]])
    /\ UNCHANGED <<disk, boot>>

\* No tab in time: BrowserBusy is never replayed, and after a failure that failure
\* is the answer.
Busy(r) ==
    /\ At(r, "queue")
    /\ Finish(r, IF job[r].error = None THEN "429" ELSE job[r].error, NoLink)

\* The provider fails, hits its limit, or answers without a picture.
NoResult(r) ==
    /\ At(r, "made")
    /\ Fail(r, "500") \/ Fail(r, "503") \/ Finish(r, "422", NoLink)

\* download_media: the result is on disk under a name of its own.
Download(r) ==
    /\ At(r, "made")
    /\ disk' = Write(disk, Result(r), Product(r, "png"))
    /\ Change(r, [job[r] EXCEPT !.step = "answer"])
    /\ UNCHANGED boot

-------------------------------------------------------------------------------
(* Files on their way out. *)

\* media_url: the path, and the key it is signed with.
Link(path) == [path |-> path, boot |-> boot]

\* The converted file beside the original, and the link to it.
RespondConverted(r) ==
    /\ disk' = Write(Cleaned(r), Converted(r), Product(r, "jpeg"))
    /\ Change(r, Answered(r, "url", Link(Converted(r))))
    /\ UNCHANGED boot

\* The rest of _run_image_request and create_video: the result as bytes; as a link
\* to its file, also when the converted one could not be written; as a link to the
\* converted file. A result the janitor has taken is a failure, except that a
\* video's link is given without a look at its file.
Respond(r) ==
    /\ At(r, "answer")
    /\ \/ Content(Result(r)) = None /\ Fail(r, "500")
       \/ Content(Result(r)) # None /\ Finish(r, "b64", NoLink)
       \/ /\ Content(Result(r)) # None \/ job[r].kind = "video"
          /\ Finish(r, "url", Link(Result(r)))
       \/ Content(Result(r)) # None /\ job[r].kind # "video" /\ RespondConverted(r)

\* get_media_file: 404 unless the signature is this process's and the file there.
Served(link) ==
    IF (Keyed \/ link.boot = boot) /\ link.path \in DOMAIN disk THEN disk[link.path].data ELSE None

-------------------------------------------------------------------------------
(* Time. *)

Age == [p \in DOMAIN disk |-> [disk[p] EXCEPT !.age = IF @ > TTL THEN @ ELSE @ + 1]]

\* A tick of the clock; files older than TTL are all alike.
Older ==
    /\ disk' = Age /\ disk' # disk
    /\ UNCHANGED <<job, boot>>

\* Mutant: a file expires a tick early.
ExpiredEarly(p) == p \in DOMAIN disk /\ disk[p].age >= TTL

Expired(p) == p \in DOMAIN disk /\ disk[p].age > TTL

\* The janitor's thread removes expired files one by one beside the requests.
Sweep(p) ==
    /\ Expired(p)
    /\ disk' = Without(disk, {p})
    /\ UNCHANGED <<job, boot>>

\* The gateway goes down with its requests and comes back: the files stay.
Restart ==
    /\ boot < MaxBoots /\ boot' = boot + 1
    /\ job' = [r \in Requests |-> IF job[r].step \in {None, "done"} THEN job[r]
                                  ELSE [Idle EXCEPT !.step = "lost"]]
    /\ UNCHANGED disk

FilesInit ==
    /\ disk = [p \in {} |-> 0]
    /\ job = [r \in Requests |-> Idle]
    /\ boot = 1

FilesNext ==
    \/ \E r \in Requests : \/ Begin(r) \/ Fetch(r) \/ Save(r) \/ Send(r) \/ Busy(r)
                           \/ NoResult(r) \/ Download(r) \/ Respond(r)
    \/ Older
    \/ \E p \in Paths : Sweep(p)
    \/ Restart

FilesSpec == FilesInit /\ [][FilesNext]_fileVars

-------------------------------------------------------------------------------
(* Properties. *)

\* An edit works on what its own caller sent, whatever other requests write beside
\* it and on every account it is tried on: what the browser takes is its own, or
\* gone because it waited longer than the janitor does, and "bad image" is only
\* said of a bad image, never of an upload an earlier attempt has read.
UploadsOwn ==
    \A r \in Requests : job[r].kind = "edit" =>
        /\ \A i \in DOMAIN job[r].sent : job[r].sent[i] \in {job[r].images[i], None}
        /\ job[r].answer = "400" => Unreadable \in Range(job[r].images)

\* A link serves the result of the request it was given to and nothing else, and
\* the file behind it stays until it has been there for longer than TTL, while
\* other requests write and clean up and the janitor sweeps: only a request that
\* was given its path as a reference takes it away earlier, with its own files.
LinkServes ==
    [][\A r \in Requests : job[r].answer = "url" =>
          LET p == job[r].link.path
          IN  /\ Served(job[r].link) \in {Product(r, f) : f \in Formats} \cup {None}
              /\ p \in DOMAIN disk /\ p \notin DOMAIN disk' =>
                    \/ disk[p].age > TTL
                    \/ \E q \in Requests : /\ job[q].local = p
                                          /\ job[q].paths # <<>> /\ job'[q].paths = <<>>]_fileVars

=============================================================================
