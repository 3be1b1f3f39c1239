---------------------------- MODULE StoresProofs ----------------------------
(* Theorems about the gateway's stores, for every value of their constants:   *)
(* the files behind a media request, the accounts and their cooldowns on      *)
(* disk, and the request log with the table behind it.                        *)
EXTENDS Files, AccountFiles, RequestLog, FiniteSetTheorems, SequenceTheorems, TLAPS

-------------------------------------------------------------------------------
(* Files: who wrote what. *)

Data == Images \cup {Product(r, f) : r \in Requests, f \in Formats}
Contents == Data \cup {None}
Steps == {None, "save", "queue", "made", "answer", "done", "lost"}

JobType ==
    [step : Steps, kind : Kinds \cup {None}, images : Seq(Images \cup {Unreadable}),
     local : {NoPath} \cup Paths, read : Nat, paths : Seq(Paths), sent : Seq(Contents), tries : Nat,
     error : {None, "500", "503"}, answer : Answers,
     link : {NoLink} \cup [path : Paths, boot : Nat]]

\* Every file is at a known path, and a result is the picture of its own request.
DiskInv(d) ==
    /\ DOMAIN d \subseteq Paths
    /\ d \in [DOMAIN d -> [data : Data, age : Nat]]
    /\ \A q \in Requests :
          /\ Result(q) \in DOMAIN d => d[Result(q)].data = Product(q, "png")
          /\ Converted(q) \in DOMAIN d => d[Converted(q)].data = Product(q, "jpeg")

\* The uploads of an edit are on disk under its own names, as many as it has read,
\* and the browser took them or found them gone.
EditInv(r, j) ==
    /\ Len(j.images) \in 1..2
    /\ Len(j.paths) <= Len(j.images)
    /\ \A i \in 1..Len(j.paths) : j.paths[i] = Upload(r, i)
    /\ j.step = "save" => j.read = Len(j.paths) /\ Len(j.paths) < Len(j.images)
    /\ \A i \in DOMAIN j.sent : j.sent[i] \in {j.images[i], None}
    /\ j.answer = "400" => Unreadable \in Range(j.images)

\* What lies on disk under an edit's names is what its caller sent.
UploadInv(r, j, d) ==
    /\ j.step = None => \A i \in 1..2 : Upload(r, i) \notin DOMAIN d
    /\ j.kind = "edit" => \A i \in 1..2 :
          Upload(r, i) \in DOMAIN d => i <= Len(j.images) /\ d[Upload(r, i)].data = j.images[i]

\* A request cleans up files on their way in and the one its caller named.
PathsInv(j) == \A i \in DOMAIN j.paths : j.paths[i] \in Temporary \cup {j.local}

\* A link leads to the result of its request.
LinkInv(r, j) == j.answer = "url" => j.link # NoLink /\ j.link.path \in {Result(r), Converted(r)}

JobInv(r, j, d) ==
    /\ j \in JobType
    /\ j.step = None => j = Idle
    /\ j.kind = "edit" => EditInv(r, j)
    /\ j.kind # "edit" => j.images \in Seq(Images)
    /\ UploadInv(r, j, d)
    /\ PathsInv(j)
    /\ LinkInv(r, j)

FilesInv ==
    /\ DiskInv(disk)
    /\ job \in [Requests -> JobType]
    /\ \A r \in Requests : JobInv(r, job[r], disk)
    /\ boot \in Nat

\* The names of results and of files on their way in never meet.
LEMMA NamesApart ==
    ASSUME NEW r \in Requests, NEW q \in Requests, NEW i, NEW k, NEW x
    PROVE  /\ Upload(r, i) # Reference(x) /\ Upload(r, i) # Result(q) /\ Upload(r, i) # Converted(q)
           /\ Reference(x) # Result(q) /\ Reference(x) # Converted(q)
           /\ Result(r) # Converted(q)
           /\ Upload(r, i) = Upload(q, k) => r = q /\ i = k
           /\ Result(r) = Result(q) => r = q
           /\ Converted(r) = Converted(q) => r = q
  BY DEF Upload, Reference, Result, Converted

\* A result is none of the files a request cleans up.
LEMMA ResultsStay ==
    ASSUME NEW q \in Requests
    PROVE  Result(q) \notin Temporary /\ Converted(q) \notin Temporary
  BY NamesApart DEF Temporary

\* The file system's operations.
LEMMA WriteFacts ==
    ASSUME NEW d, NEW p, NEW x
    PROVE  /\ DOMAIN Write(d, p, x) = DOMAIN d \cup {p}
           /\ Write(d, p, x)[p] = [data |-> x, age |-> 0]
           /\ \A z \in DOMAIN d : z # p => Write(d, p, x)[z] = d[z]
  BY DEF Write

\* Without takes the named files off and leaves the others as they are.
LEMMA WithoutFacts ==
    ASSUME NEW d, NEW gone
    PROVE  /\ DOMAIN Without(d, gone) = DOMAIN d \ gone
           /\ \A z \in DOMAIN d \ gone : Without(d, gone)[z] = d[z]
  BY DEF Without, Restrict

\* Writing what belongs at a path and removing files keep the disk in order.
LEMMA DiskWrite ==
    ASSUME NEW d, DiskInv(d), NEW p \in Paths, NEW x \in Data,
           \A q \in Requests : /\ p = Result(q) => x = Product(q, "png")
                               /\ p = Converted(q) => x = Product(q, "jpeg")
    PROVE  DiskInv(Write(d, p, x))
<1> DEFINE w == Write(d, p, x)
<1>1. /\ DOMAIN w = DOMAIN d \cup {p}
      /\ w[p] = [data |-> x, age |-> 0]
      /\ \A z \in DOMAIN d : z # p => w[z] = d[z]
  BY DEF Write
<1>2. w = [z \in DOMAIN w |-> w[z]]
  BY DEF Write
<1> HIDE DEF w
<1>3. w \in [DOMAIN w -> [data : Data, age : Nat]]
  <2>1. \A z \in DOMAIN w : w[z] \in [data : Data, age : Nat]
    BY <1>1 DEF DiskInv
  <2> QED BY <2>1, <1>2
<1>4. \A q \in Requests :
          /\ Result(q) \in DOMAIN w => w[Result(q)].data = Product(q, "png")
          /\ Converted(q) \in DOMAIN w => w[Converted(q)].data = Product(q, "jpeg")
  BY <1>1 DEF DiskInv
<1>5. DOMAIN w \subseteq Paths
  BY <1>1 DEF DiskInv
<1> QED BY <1>3, <1>4, <1>5 DEF DiskInv, w

\* Removing files keeps the disk in order.
LEMMA DiskWithout ==
    ASSUME NEW d, DiskInv(d), NEW gone
    PROVE  DiskInv(Without(d, gone))
<1> DEFINE w == Without(d, gone)
<1>1. DOMAIN w = DOMAIN d \ gone /\ \A z \in DOMAIN w : w[z] = d[z]
  BY WithoutFacts
<1>2. w = [z \in DOMAIN w |-> w[z]]
  BY DEF Without, Restrict
<1> HIDE DEF w
<1>3. w \in [DOMAIN w -> [data : Data, age : Nat]]
  <2>1. \A z \in DOMAIN w : w[z] \in [data : Data, age : Nat]
    BY <1>1 DEF DiskInv
  <2> QED BY <2>1, <1>2
<1>4. \A q \in Requests :
          /\ Result(q) \in DOMAIN w => w[Result(q)].data = Product(q, "png")
          /\ Converted(q) \in DOMAIN w => w[Converted(q)].data = Product(q, "jpeg")
  BY <1>1 DEF DiskInv
<1> QED BY <1>1, <1>3, <1>4 DEF DiskInv, w

\* A step that writes nothing under a request's upload names leaves it in order.
LEMMA OtherJob ==
    ASSUME NEW r, NEW j, NEW d, NEW e, JobInv(r, j, d),
           \A i \in 1..2 : Upload(r, i) \in DOMAIN e =>
               Upload(r, i) \in DOMAIN d /\ e[Upload(r, i)].data = d[Upload(r, i)].data
    PROVE  JobInv(r, j, e)
  BY DEF JobInv, UploadInv

\* A step of request r keeps the invariant when it leaves r's job and the disk in
\* order and the other requests' uploads alone.
LEMMA OneJob ==
    ASSUME FilesInv, NEW r \in Requests, NEW new, Change(r, new), boot' = boot,
           DiskInv(disk'), JobInv(r, new, disk'),
           \A q \in Requests \ {r} : \A i \in 1..2 : Upload(q, i) \in DOMAIN disk' =>
               Upload(q, i) \in DOMAIN disk /\ disk'[Upload(q, i)].data = disk[Upload(q, i)].data
    PROVE  FilesInv'
<1>1. new \in JobType
  BY DEF JobInv
<1>2. job' \in [Requests -> JobType] /\ job'[r] = new
      /\ \A q \in Requests \ {r} : job'[q] = job[q]
  BY <1>1 DEF Change, FilesInv
<1>3. \A q \in Requests : JobInv(q, job'[q], disk')
  <2> TAKE q \in Requests
  <2>1. CASE q = r
    BY <2>1, <1>2
  <2>2. CASE q # r
    BY <2>2, <1>2, OtherJob DEF FilesInv
  <2> QED BY <2>1, <2>2
<1> QED BY <1>2, <1>3 DEF FilesInv
\* The fields of a job, one by one.
LEMMA JobFields ==
    ASSUME NEW j \in JobType
    PROVE  /\ j.step \in Steps /\ j.kind \in Kinds \cup {None} /\ j.images \in Seq(Images \cup {Unreadable})
           /\ j.local \in {NoPath} \cup Paths /\ j.read \in Nat /\ j.paths \in Seq(Paths) /\ j.sent \in Seq(Contents) /\ j.tries \in Nat
           /\ j.error \in {None, "500", "503"} /\ j.answer \in Answers
           /\ j.link \in {NoLink} \cup [path : Paths, boot : Nat]
  BY DEF JobType

\* The empty lists a job starts from.
LEMMA EmptySeqs == <<>> \in Seq(Paths) /\ <<>> \in Seq(Contents)
  OBVIOUS

\* An answered request holds nothing any more.
LEMMA AnsweredJob ==
    ASSUME FilesInv, NEW r \in Requests, NEW d, JobInv(r, job[r], d), job[r].step # None,
           NEW answer \in Answers, NEW link \in {NoLink} \cup [path : Paths, boot : Nat],
           answer = "url" => link # NoLink /\ link.path \in {Result(r), Converted(r)},
           answer = "400" /\ job[r].kind = "edit" => Unreadable \in Range(job[r].images)
    PROVE  JobInv(r, Answered(r, answer, link), d)
<1> DEFINE old == job[r]
           new == Answered(r, answer, link)
<1>1. old \in JobType
  BY DEF JobInv
<1>2. /\ new.step = "done" /\ new.kind = old.kind /\ new.images = old.images /\ new.read = 0
      /\ new.paths = <<>> /\ new.sent = <<>> /\ new.tries = 0 /\ new.error = None
      /\ new.answer = answer /\ new.link = link
  BY <1>1 DEF JobType, Answered
<1>7. new \in JobType
  BY <1>1, JobFields, EmptySeqs DEF JobType, Answered, Steps
<1> HIDE DEF new
<1>3. ASSUME new.kind = "edit" PROVE EditInv(r, new)
  <2>1. EditInv(r, old)
    BY <1>2, <1>3 DEF JobInv
  <2>2. Len(new.paths) = 0 /\ DOMAIN new.sent = {}
    BY <1>2
  <2> QED BY <2>1, <2>2, <1>2, <1>3 DEF EditInv
<1>4. UploadInv(r, new, d)
  BY <1>2 DEF JobInv, UploadInv, None
<1>5. LinkInv(r, new)
  BY <1>2 DEF LinkInv
<1>6. new.step # None /\ PathsInv(new)
  BY <1>2 DEF None, PathsInv
<1> QED BY <1>2, <1>3, <1>4, <1>5, <1>6, <1>7 DEF JobInv, new

\* Removing a request's files disturbs no other request.
LEMMA CleanedInv ==
    ASSUME FilesInv, NEW r \in Requests
    PROVE  /\ DiskInv(Cleaned(r))
           /\ \A q \in Requests : \A i \in 1..2 : Upload(q, i) \in DOMAIN Cleaned(r) =>
                  Upload(q, i) \in DOMAIN disk /\ Cleaned(r)[Upload(q, i)].data = disk[Upload(q, i)].data
           /\ \A q \in Requests : JobInv(q, job[q], Cleaned(r))
<1>1. DiskInv(Cleaned(r))
  BY DiskWithout DEF FilesInv, Cleaned
<1>2. \A q \in Requests : \A i \in 1..2 : Upload(q, i) \in DOMAIN Cleaned(r) =>
          Upload(q, i) \in DOMAIN disk /\ Cleaned(r)[Upload(q, i)].data = disk[Upload(q, i)].data
  BY DEF Cleaned, Without, Restrict
<1>3. \A q \in Requests : JobInv(q, job[q], Cleaned(r))
  BY <1>2, OtherJob DEF FilesInv
<1> QED BY <1>1, <1>2, <1>3

\* An answer that is earned keeps the invariant.
LEMMA FinishInv ==
    ASSUME FilesInv, NEW r \in Requests, job[r].step # None,
           NEW answer \in Answers, NEW link \in {NoLink} \cup [path : Paths, boot : Nat],
           answer = "url" => link # NoLink /\ link.path \in {Result(r), Converted(r)},
           answer = "400" /\ job[r].kind = "edit" => Unreadable \in Range(job[r].images),
           Finish(r, answer, link)
    PROVE  FilesInv'
<1>1. disk' = Cleaned(r) /\ Change(r, Answered(r, answer, link)) /\ boot' = boot
  BY DEF Finish
<1>2. JobInv(r, Answered(r, answer, link), Cleaned(r))
  BY CleanedInv, AnsweredJob
<1> QED BY <1>1, <1>2, CleanedInv, OneJob

\* A replay starts over with what the caller sent: the files of the attempt are gone
\* and every upload is read anew.
LEMMA ReplayInv ==
    ASSUME FilesInv, NEW r \in Requests, job[r].step \in {"made", "answer"},
           NEW error \in {"500", "503"}, Replay(r, error)
    PROVE  FilesInv'
<1> DEFINE old == job[r]
<1> DEFINE new == [old EXCEPT !.step = "save", !.paths = <<>>, !.sent = <<>>,
                              !.tries = @ + 1, !.error = error, !.read = 0]
<1>1. disk' = Cleaned(r) /\ Change(r, new) /\ boot' = boot
  BY DEF Replay
<1>2. JobInv(r, old, Cleaned(r)) /\ old \in JobType
  BY CleanedInv DEF JobInv
<1>3. /\ new.step = "save" /\ new.kind = old.kind /\ new.images = old.images /\ new.read = 0
      /\ new.paths = <<>> /\ new.sent = <<>> /\ new.answer = old.answer /\ new.link = old.link
  BY <1>2 DEF JobType
<1>8. new \in JobType
  <2>1. old \in JobType /\ old.tries \in Nat
    BY <1>2, JobFields
  <2>2. "save" \in Steps /\ old.tries + 1 \in Nat /\ error \in {None, "500", "503"} /\ 0 \in Nat
    BY <2>1 DEF Steps
  <2> HIDE DEF old
  <2> QED BY <2>1, <2>2, EmptySeqs DEF JobType
<1> HIDE DEF new
<1>4. ASSUME new.kind = "edit" PROVE EditInv(r, new)
  <2>1. EditInv(r, old)
    BY <1>2, <1>3, <1>4 DEF JobInv
  <2>2. Len(new.paths) = 0 /\ DOMAIN new.sent = {} /\ 1..Len(new.paths) = {}
    BY <1>3
  <2>3. Len(new.images) \in 1..2 /\ (new.answer = "400" => Unreadable \in Range(new.images))
    BY <2>1, <1>3 DEF EditInv
  <2>0. Len(new.paths) = 0 /\ new.read = 0
    BY <1>3
  <2>4. Len(new.paths) <= Len(new.images) /\ new.read = Len(new.paths) /\ Len(new.paths) < Len(new.images)
    <3>1. PICK n \in 1..2 : Len(new.images) = n
      BY <2>3
    <3>2. 0 <= n /\ 0 < n
      OBVIOUS
    <3> QED BY <2>0, <3>1, <3>2
  <2>5. \A i \in 1..Len(new.paths) : new.paths[i] = Upload(r, i)
    BY <2>2
  <2>6. \A i \in DOMAIN new.sent : new.sent[i] \in {new.images[i], None}
    BY <2>2
  <2> QED BY <2>3, <2>4, <2>5, <2>6 DEF EditInv
<1>5. UploadInv(r, new, Cleaned(r))
  BY <1>2, <1>3 DEF JobInv, UploadInv, None
<1>6. LinkInv(r, new) /\ PathsInv(new)
  BY <1>2, <1>3 DEF JobInv, LinkInv, PathsInv
<1>7. JobInv(r, new, Cleaned(r))
  BY <1>2, <1>3, <1>8, <1>4, <1>5, <1>6 DEF JobInv, None
<1> HIDE DEF old
<1> QED BY <1>1, <1>7, CleanedInv, OneJob

\* An error after the tab's work is an answer without a link.
LEMMA FailInv ==
    ASSUME FilesInv, NEW r \in Requests, job[r].step \in {"made", "answer"},
           NEW error \in {"500", "503"}, Fail(r, error)
    PROVE  FilesInv'
  BY FinishInv, ReplayInv DEF Fail, NoLink, Answers, None

\* What a caller may send is one or two files.
LEMMA GivenType ==
    ASSUME NEW kind, NEW images \in Given(kind)
    PROVE  /\ images \in Seq(Images \cup {Unreadable}) /\ Len(images) <= 2
           /\ kind = "edit" => Len(images) \in 1..2
           /\ kind # "edit" => images \in Seq(Images)
<1>1. CASE kind = "edit"
  <2>1. \/ \E x \in Images \cup {Unreadable} : images = <<x>>
        \/ \E x \in Images, y \in Images \cup {Unreadable} : images = <<x, y>>
    BY <1>1 DEF Given
  <2>2. CASE \E x \in Images \cup {Unreadable} : images = <<x>>
    BY <1>1, <2>2
  <2>3. CASE \E x \in Images, y \in Images \cup {Unreadable} : images = <<x, y>>
    <3>1. PICK x \in Images : \E y \in Images \cup {Unreadable} : images = <<x, y>>
      BY <2>3
    <3>2. PICK y \in Images \cup {Unreadable} : images = <<x, y>>
      BY <3>1
    <3> QED BY <1>1, <3>2
  <2> QED BY <2>1, <2>2, <2>3
<1>2. CASE kind # "edit"
  <2>1. images = <<>> \/ \E x \in Images : images = <<x>>
    BY <1>2 DEF Given
  <2>2. CASE images = <<>>
    BY <2>2, <1>2
  <2>3. CASE \E x \in Images : images = <<x>>
    BY <2>3, <1>2
  <2> QED BY <2>1, <2>2, <2>3
<1> QED BY <1>1, <1>2

\* A request that is parsed keeps the invariant, refused or not.
LEMMA BeginInv ==
    ASSUME FilesInv, NEW r \in Requests, Begin(r)
    PROVE  FilesInv'
<1> DEFINE asked(kind, images, local) ==
      [Idle EXCEPT !.step = "save", !.kind = kind, !.images = images, !.local = local, !.tries = 1]
<1>1. At(r, None) /\ UNCHANGED <<disk, boot>>
  BY DEF Begin
<1>2. PICK kind \in Kinds : \E images \in Given(kind), local \in {NoPath} \cup Paths :
         Change(r, asked(kind, images, local))
  <2>1. Told \subseteq Paths
    BY DEF Told, Paths
  <2>2. PICK kind \in Kinds, local \in {NoPath} \cup Told : \E images \in Given(kind) :
           Change(r, asked(kind, images, local))
    BY DEF Begin
  <2> HIDE DEF asked
  <2> QED BY <2>1, <2>2
<1>11. PICK images \in Given(kind), local \in {NoPath} \cup Paths : Change(r, asked(kind, images, local))
  BY <1>2
<1> DEFINE new == asked(kind, images, local)
<1>3. images \in Seq(Images \cup {Unreadable}) /\ (kind = "edit" => Len(images) \in 1..2)
      /\ (kind # "edit" => images \in Seq(Images))
  BY GivenType
<1>4. /\ new.step = "save" /\ new.kind = kind /\ new.images = images /\ new.read = 0
      /\ new.paths = <<>> /\ new.sent = <<>> /\ new.answer = None
  BY DEF Idle
<1>10. new \in JobType
  <2>1. /\ "save" \in Steps /\ kind \in Kinds \cup {None} /\ 0 \in Nat /\ 1 \in Nat
        /\ None \in {None, "500", "503"} /\ None \in Answers
        /\ NoLink \in {NoLink} \cup [path : Paths, boot : Nat]
    BY DEF Steps, Answers
  <2> QED BY <2>1, <1>3, EmptySeqs DEF JobType, Idle
<1>5. UploadInv(r, job[r], disk) /\ job[r].step = None
  BY <1>1 DEF FilesInv, JobInv, At
<1> HIDE DEF new
<1>6. ASSUME kind = "edit" PROVE EditInv(r, new)
  <2>1. Len(new.paths) = 0 /\ DOMAIN new.sent = {} /\ 1..Len(new.paths) = {}
    BY <1>4
  <2>2. Len(new.images) \in 1..2 /\ new.answer # "400"
    BY <1>3, <1>4, <1>6 DEF None
  <2>0. Len(new.paths) = 0 /\ new.read = 0
    BY <1>4
  <2>4. Len(new.paths) <= Len(new.images) /\ new.read = Len(new.paths) /\ Len(new.paths) < Len(new.images)
    <3>1. PICK n \in 1..2 : Len(new.images) = n
      BY <2>2
    <3>2. 0 <= n /\ 0 < n
      OBVIOUS
    <3> QED BY <2>0, <3>1, <3>2
  <2>5. \A i \in 1..Len(new.paths) : new.paths[i] = Upload(r, i)
    BY <2>1
  <2>6. \A i \in DOMAIN new.sent : new.sent[i] \in {new.images[i], None}
    BY <2>1
  <2> QED BY <2>2, <2>4, <2>5, <2>6 DEF EditInv
<1>7. UploadInv(r, new, disk)
  BY <1>4, <1>5 DEF UploadInv, None
<1>8. JobInv(r, new, disk)
  BY <1>3, <1>4, <1>6, <1>7, <1>10 DEF JobInv, LinkInv, PathsInv, None
<1>9. Change(r, new) /\ disk' = disk /\ boot' = boot
  BY <1>1, <1>11 DEF new
<1> QED BY <1>8, <1>9, OneJob DEF FilesInv

\* Writing a file of one's own, or a shared reference, disturbs no other upload.
LEMMA WriteOthers ==
    ASSUME NEW r \in Requests, NEW d, NEW p, NEW x,
           \/ p = Result(r) \/ p = Converted(r)
           \/ \E i \in 1..2 : p = Upload(r, i)
           \/ \E y : p = Reference(y)
    PROVE  /\ \A q \in Requests \ {r} : \A i \in 1..2 : Upload(q, i) \in DOMAIN Write(d, p, x) =>
                  Upload(q, i) \in DOMAIN d /\ Write(d, p, x)[Upload(q, i)].data = d[Upload(q, i)].data
           /\ ~ (\E i \in 1..2 : p = Upload(r, i)) =>
                  \A i \in 1..2 : Upload(r, i) \in DOMAIN Write(d, p, x) =>
                      Upload(r, i) \in DOMAIN d /\ Write(d, p, x)[Upload(r, i)].data = d[Upload(r, i)].data
<1>1. \A q \in Requests \ {r} : \A i \in 1..2 : Upload(q, i) # p
  BY NamesApart
<1> QED BY <1>1 DEF Write

\* The whole job, when the uploads on disk and the answer are not this step's.
LEMMA StepJob ==
    ASSUME FilesInv, NEW r \in Requests, NEW new \in JobType, NEW d, JobInv(r, job[r], d),
           job[r].step # None, new.step \notin {None, "save"},
           new.kind = job[r].kind, new.images = job[r].images,
           new.answer = job[r].answer, new.link = job[r].link, PathsInv(new),
           new.kind = "edit" => new.paths = job[r].paths,
           new.kind = "edit" => \A i \in DOMAIN new.sent : new.sent[i] \in {new.images[i], None}
    PROVE  JobInv(r, new, d)
<1>1. new.kind = "edit" => EditInv(r, new)
  BY DEF JobInv, EditInv
<1>2. UploadInv(r, new, d) /\ LinkInv(r, new)
  BY DEF JobInv, UploadInv, PathsInv, LinkInv, None
<1> QED BY <1>1, <1>2 DEF JobInv

\* Reading one reference of an edit keeps the invariant.
LEMMA FetchInv ==
    ASSUME FilesInv, NEW r \in Requests, Fetch(r)
    PROVE  FilesInv'
<1> DEFINE old == job[r]
           queued == [old EXCEPT !.step = "queue"]
           ref == Reference(old.images[1])
           fetched == [old EXCEPT !.step = "queue", !.paths = <<ref>>]
<1>1. old \in JobType /\ JobInv(r, old, disk) /\ old.step = "save" /\ old.kind # "edit"
  BY DEF FilesInv, Fetch, At
<1>2. queued \in JobType /\ queued.step = "queue" /\ queued.kind = old.kind /\ queued.images = old.images
      /\ queued.answer = old.answer /\ queued.link = old.link /\ PathsInv(queued)
  <2>1. "queue" \in Steps
    BY DEF Steps
  <2> QED BY <1>1, <2>1 DEF JobType, JobInv, PathsInv
<1>3. CASE Change(r, queued) /\ UNCHANGED <<disk, boot>>
  <2>1. JobInv(r, queued, disk)
    <3> HIDE DEF queued
    <3> QED BY <1>1, <1>2, StepJob DEF None
  <2> HIDE DEF queued
  <2> QED BY <1>3, <2>1, OneJob DEF FilesInv
<1>4. CASE old.images # <<>> /\ disk' = Write(disk, ref, old.images[1])
           /\ Change(r, fetched) /\ UNCHANGED boot
  <2>1. old.images[1] \in Images
    <3>1. old.images \in Seq(Images)
      BY <1>1 DEF JobInv
    <3>2. old.images # <<>>
      BY <1>4
    <3> HIDE DEF old
    <3> QED BY <3>1, <3>2
  <2>2. ref \in Paths /\ ref \in Temporary
    BY <2>1 DEF Paths, Temporary
  <2>3. /\ fetched.step = "queue" /\ fetched.kind = old.kind /\ fetched.images = old.images
        /\ fetched.answer = old.answer /\ fetched.link = old.link /\ PathsInv(fetched)
    BY <1>1, <2>2 DEF JobType, PathsInv
  <2>4. fetched \in JobType
    <3>1. "queue" \in Steps /\ <<ref>> \in Seq(Paths)
      BY <2>2 DEF Steps
    <3> HIDE DEF ref
    <3> QED BY <1>1, <3>1 DEF JobType
  <2>5. DiskInv(disk')
    <3>1. old.images[1] \in Data /\ \A q \in Requests : ref # Result(q) /\ ref # Converted(q)
      BY <2>1, NamesApart DEF Data
    <3> HIDE DEF ref, old
    <3> QED BY <1>4, <2>2, <3>1, DiskWrite DEF FilesInv
  <2>6. \A q \in Requests : \A i \in 1..2 : Upload(q, i) \in DOMAIN disk' =>
               Upload(q, i) \in DOMAIN disk /\ disk'[Upload(q, i)].data = disk[Upload(q, i)].data
    <3>1. \A q \in Requests : \A i \in 1..2 : Upload(q, i) # ref
      BY NamesApart
    <3> HIDE DEF ref
    <3> QED BY <1>4, <3>1 DEF Write
  <2>7. JobInv(r, old, disk')
    BY <1>1, <2>6, OtherJob
  <2>8. JobInv(r, fetched, disk')
    <3> HIDE DEF fetched
    <3> QED BY <1>1, <2>3, <2>4, <2>7, StepJob DEF None
  <2>9. Change(r, fetched) /\ boot' = boot
    BY <1>4
  <2> HIDE DEF fetched
  <2> QED BY <2>5, <2>6, <2>8, <2>9, OneJob
<1>5. CASE Finish(r, "400", NoLink)
  BY <1>1, <1>5, FinishInv DEF NoLink, Answers, None
<1> DEFINE named == [old EXCEPT !.step = "queue", !.paths = <<old.local>>]
<1>6. CASE Named(r) /\ Change(r, named) /\ UNCHANGED <<disk, boot>>
  <2>1. old.local \in Paths
    BY <1>1, <1>6, JobFields DEF Named
  <2>2. /\ named.step = "queue" /\ named.kind = old.kind /\ named.images = old.images
        /\ named.answer = old.answer /\ named.link = old.link /\ PathsInv(named)
    BY <1>1 DEF JobType, PathsInv
  <2>3. named \in JobType
    <3>1. "queue" \in Steps /\ <<old.local>> \in Seq(Paths)
      BY <2>1 DEF Steps
    <3> QED BY <1>1, <3>1 DEF JobType
  <2>4. JobInv(r, named, disk)
    <3> HIDE DEF named
    <3> QED BY <1>1, <2>2, <2>3, StepJob DEF None
  <2>5. Change(r, named) /\ disk' = disk /\ boot' = boot
    BY <1>6
  <2> HIDE DEF named
  <2> QED BY <2>4, <2>5, OneJob DEF FilesInv
<1>7. \/ /\ old.images # <<>> /\ disk' = Write(disk, ref, old.images[1])
         /\ Change(r, fetched) /\ UNCHANGED boot
      \/ Named(r) /\ Change(r, named) /\ UNCHANGED <<disk, boot>>
      \/ Change(r, queued) /\ UNCHANGED <<disk, boot>>
      \/ Finish(r, "400", NoLink)
  BY DEF Fetch
<1> HIDE DEF fetched, named, queued, ref
<1> QED BY <1>3, <1>4, <1>5, <1>6, <1>7

\* The i-th upload of an edit is read and stored under its own name.
LEMMA SaveInv ==
    ASSUME FilesInv, NEW r \in Requests, Save(r)
    PROVE  FilesInv'
<1> DEFINE old == job[r]
           n == Len(old.paths)
<1>1. old \in JobType /\ JobInv(r, old, disk) /\ EditInv(r, old) /\ old.step = "save" /\ old.kind = "edit"
  BY DEF FilesInv, Save, At, JobInv
<1>2. /\ n \in Nat /\ old.read = n /\ Len(old.images) \in 1..2 /\ n < Len(old.images)
      /\ old.images \in Seq(Images \cup {Unreadable}) /\ old.paths \in Seq(Paths)
  BY <1>1, JobFields DEF EditInv
<1> DEFINE i == n + 1
           x == old.images[i]
<1>3. i \in 1..2 /\ i <= Len(old.images) /\ x \in Images \cup {Unreadable} /\ x \in Range(old.images)
  <2> HIDE DEF old
  <2>1. i \in 1..2 /\ i <= Len(old.images) /\ i \in DOMAIN old.images
    BY <1>2
  <2> QED BY <1>2, <2>1 DEF Range
<1>4. CASE (x = Unreadable \/ old.read >= i) /\ Finish(r, "400", NoLink)
  <2>1. x = Unreadable
    BY <1>2, <1>4
  <2> QED BY <1>1, <1>3, <1>4, <2>1, FinishInv DEF NoLink, Answers, None
<1> DEFINE up == Upload(r, i)
           new == [old EXCEPT !.paths = Append(@, up), !.read = i,
                              !.step = IF i = Len(old.images) THEN "queue" ELSE "save"]
<1>5. CASE /\ x # Unreadable
           /\ disk' = Write(disk, up, x)
           /\ Change(r, new)
           /\ UNCHANGED boot
  <2>1. up \in Paths /\ up \in Temporary
    BY <1>3 DEF Paths, Temporary
  <2>2. /\ new.step = (IF i = Len(old.images) THEN "queue" ELSE "save") /\ new.kind = old.kind
        /\ new.images = old.images /\ new.paths = Append(old.paths, up) /\ new.read = i
        /\ new.answer = old.answer /\ new.link = old.link /\ new.sent = old.sent
    BY <1>1 DEF JobType
  <2>3. new \in JobType
    <3>1. /\ (IF i = Len(old.images) THEN "queue" ELSE "save") \in Steps /\ i \in Nat
      BY <1>2 DEF Steps
    <3>2. Append(old.paths, up) \in Seq(Paths)
      <4> HIDE DEF up, old
      <4> QED BY <1>2, <2>1
    <3> HIDE DEF up, i, n
    <3> QED BY <1>1, <3>1, <3>2 DEF JobType
  <2>4. DiskInv(disk')
    <3>1. x \in Data /\ \A q \in Requests : up # Result(q) /\ up # Converted(q)
      BY <1>3, <1>5, NamesApart DEF Data
    <3> HIDE DEF up, x
    <3> QED BY <1>5, <2>1, <3>1, DiskWrite DEF FilesInv
  <2>5. \A q \in Requests \ {r} : \A k \in 1..2 : Upload(q, k) \in DOMAIN disk' =>
               Upload(q, k) \in DOMAIN disk /\ disk'[Upload(q, k)].data = disk[Upload(q, k)].data
    <3>1. \A q \in Requests \ {r} : \A k \in 1..2 : Upload(q, k) # up
      BY NamesApart
    <3> HIDE DEF up
    <3> QED BY <1>5, <3>1 DEF Write
  <2>6. EditInv(r, new)
    <3> HIDE DEF up, x, old
    <3>1. Len(new.paths) = i /\ \A k \in 1..i : new.paths[k] = IF k = i THEN up ELSE old.paths[k]
      BY <1>2, <2>2
    <3>2. Len(new.images) \in 1..2 /\ Len(new.paths) <= Len(new.images)
      BY <1>2, <2>2, <3>1
    <3>3. \A k \in 1..Len(new.paths) : new.paths[k] = Upload(r, k)
      BY <1>1, <1>2, <3>1 DEF EditInv, up
    <3>4. new.step = "save" => new.read = Len(new.paths) /\ Len(new.paths) < Len(new.images)
      BY <1>2, <2>2, <3>1
    <3>5. /\ \A k \in DOMAIN new.sent : new.sent[k] \in {new.images[k], None}
          /\ new.answer = "400" => Unreadable \in Range(new.images)
      BY <1>1, <2>2 DEF EditInv
    <3> QED BY <3>2, <3>3, <3>4, <3>5 DEF EditInv
  <2>7. UploadInv(r, new, disk')
    <3>1. ASSUME NEW k \in 1..2, Upload(r, k) \in DOMAIN disk'
          PROVE  k <= Len(old.images) /\ disk'[Upload(r, k)].data = old.images[k]
      <4>1. CASE k = i
        <5>1. Upload(r, k) = up /\ old.images[k] = x
          BY <4>1
        <5>2. disk'[up].data = x
          <6> HIDE DEF up, x
          <6> QED BY <1>5 DEF Write
        <5> QED BY <1>3, <4>1, <5>1, <5>2
      <4>2. CASE k # i
        <5>1. Upload(r, k) # up
          BY <4>2, NamesApart
        <5> HIDE DEF up, old
        <5>2. Upload(r, k) \in DOMAIN disk /\ disk'[Upload(r, k)] = disk[Upload(r, k)]
          BY <1>5, <3>1, <5>1 DEF Write
        <5> QED BY <1>1, <5>2 DEF JobInv, UploadInv
      <4> QED BY <4>1, <4>2
    <3>2. new.step # None
      BY <2>2 DEF None
    <3> QED BY <2>2, <3>1, <3>2 DEF UploadInv
  <2>8. JobInv(r, new, disk')
    <3>1. LinkInv(r, new)
      BY <1>1, <2>2 DEF JobInv, LinkInv
    <3>2. new.step # None /\ new.kind = "edit" /\ new.local = old.local
      BY <1>1, <2>2 DEF JobType, None
    <3> HIDE DEF new
    <3>3. PathsInv(new)
      <4> HIDE DEF old, up
      <4>1. \A k \in DOMAIN new.paths : new.paths[k] = up \/ (k \in DOMAIN old.paths /\ new.paths[k] = old.paths[k])
        <5>1. DOMAIN old.paths = 1..n /\ DOMAIN new.paths = 1..i
          BY <1>2, <2>2
        <5>2. \A k \in 1..i : new.paths[k] = IF k = i THEN up ELSE old.paths[k]
          BY <1>2, <2>2
        <5>3. \A k \in 1..i : k # i => k \in 1..n
          BY <1>2
        <5> TAKE k \in DOMAIN new.paths
        <5>4. k \in 1..i
          BY <5>1
        <5> HIDE DEF new, i, n
        <5>5. CASE k = i
          BY <5>2, <5>4, <5>5
        <5>6. CASE k # i
          BY <5>1, <5>2, <5>3, <5>4, <5>6
        <5> QED BY <5>5, <5>6
      <4> QED BY <1>1, <2>1, <3>2, <4>1 DEF JobInv, PathsInv
    <3> QED BY <2>3, <2>6, <2>7, <3>1, <3>2, <3>3 DEF JobInv
  <2>9. Change(r, new) /\ boot' = boot
    BY <1>5
  <2> HIDE DEF new
  <2> QED BY <2>4, <2>5, <2>8, <2>9, OneJob
<1>6. \/ (x = Unreadable \/ old.read >= i) /\ Finish(r, "400", NoLink)
      \/ /\ x # Unreadable
         /\ disk' = Write(disk, up, x)
         /\ Change(r, new)
         /\ UNCHANGED boot
  BY DEF Save, UploadPath
<1> QED BY <1>4, <1>5, <1>6

\* What the browser takes are the files the job holds, or nothing for a missing one.
LEMMA SendInv ==
    ASSUME FilesInv, NEW r \in Requests, Send(r)
    PROVE  FilesInv'
<1> DEFINE old == job[r]
           took == [i \in DOMAIN old.paths |-> Content(old.paths[i])]
           new == [old EXCEPT !.step = "made", !.sent = took]
<1>1. old \in JobType /\ JobInv(r, old, disk) /\ old.step = "queue" /\ old.paths \in Seq(Paths)
  BY JobFields DEF FilesInv, Send, At
<1>2. took \in Seq(Contents)
  <2>1. \A p : Content(p) \in Contents
    BY DEF Content, Contents, FilesInv, DiskInv
  <2>2. DOMAIN old.paths = 1..Len(old.paths) /\ Len(old.paths) \in Nat
    <3> HIDE DEF old
    <3> QED BY <1>1
  <2> HIDE DEF old
  <2> QED BY <2>1, <2>2
<1>3. new \in JobType
  <2>1. "made" \in Steps
    BY DEF Steps
  <2> HIDE DEF took
  <2> QED BY <1>1, <1>2, <2>1 DEF JobType
<1>4. /\ new.step = "made" /\ new.kind = old.kind /\ new.images = old.images /\ new.sent = took
      /\ new.answer = old.answer /\ new.link = old.link /\ new.paths = old.paths /\ new.local = old.local
  BY <1>1 DEF JobType
<1>5. ASSUME old.kind = "edit", NEW i \in DOMAIN old.paths
      PROVE  took[i] \in {old.images[i], None}
  <2>1. EditInv(r, old) /\ UploadInv(r, old, disk)
    BY <1>1, <1>5 DEF JobInv
  <2>2. i \in 1..Len(old.paths) /\ Len(old.paths) <= 2
    <3> HIDE DEF old
    <3>1. i \in 1..Len(old.paths) /\ Len(old.paths) \in Nat
      BY <1>1, <1>5
    <3>2. PICK n \in 1..2 : Len(old.images) = n
      BY <2>1 DEF EditInv
    <3>3. Len(old.paths) <= n
      BY <2>1, <3>2 DEF EditInv
    <3> QED BY <3>1, <3>3
  <2>3. i \in 1..2 /\ old.paths[i] = Upload(r, i)
    BY <2>1, <2>2 DEF EditInv
  <2> QED BY <1>5, <2>1, <2>3 DEF UploadInv, Content
<1>6. JobInv(r, new, disk)
  <2>1. DOMAIN took = DOMAIN old.paths
    OBVIOUS
  <2> HIDE DEF new, took
  <2>2. PathsInv(new)
    BY <1>1, <1>4 DEF JobInv, PathsInv
  <2> QED BY <1>1, <1>3, <1>4, <1>5, <2>1, <2>2, StepJob DEF None
<1>7. Change(r, new) /\ UNCHANGED <<disk, boot>>
  BY DEF Send
<1> HIDE DEF new
<1> QED BY <1>6, <1>7, OneJob DEF FilesInv

\* A call that no account could take keeps the invariant.
LEMMA BusyInv ==
    ASSUME FilesInv, NEW r \in Requests, Busy(r)
    PROVE  FilesInv'
<1>1. job[r].error \in {None, "500", "503"} /\ job[r].step = "queue"
  BY JobFields DEF FilesInv, Busy, At
<1> DEFINE answer == IF job[r].error = None THEN "429" ELSE job[r].error
<1>2. answer \in Answers /\ answer \notin {"url", "400"} /\ NoLink \in {NoLink} \cup [path : Paths, boot : Nat]
  BY <1>1 DEF Answers, None
<1>3. Finish(r, answer, NoLink)
  BY DEF Busy
<1> HIDE DEF answer
<1> QED BY <1>1, <1>2, <1>3, FinishInv DEF None

\* A page that made nothing keeps the invariant.
LEMMA NoResultInv ==
    ASSUME FilesInv, NEW r \in Requests, NoResult(r)
    PROVE  FilesInv'
<1>1. job[r].step = "made" /\ NoLink \in {NoLink} \cup [path : Paths, boot : Nat] /\ "422" \in Answers
  BY DEF NoResult, At, Answers
<1>2. CASE Fail(r, "500") \/ Fail(r, "503")
  BY <1>1, <1>2, FailInv
<1>3. CASE Finish(r, "422", NoLink)
  BY <1>1, <1>3, FinishInv DEF None
<1> QED BY <1>2, <1>3 DEF NoResult

\* Writing a result disturbs no upload.
LEMMA ResultWrite ==
    ASSUME NEW r \in Requests, NEW d, DiskInv(d), NEW p, NEW f \in Formats,
           \/ p = Result(r) /\ f = "png"
           \/ p = Converted(r) /\ f = "jpeg"
    PROVE  /\ DiskInv(Write(d, p, Product(r, f)))
           /\ \A q \in Requests : \A i \in 1..2 : Upload(q, i) \in DOMAIN Write(d, p, Product(r, f)) =>
                  /\ Upload(q, i) \in DOMAIN d
                  /\ Write(d, p, Product(r, f))[Upload(q, i)].data = d[Upload(q, i)].data
<1>1. p \in Paths /\ Product(r, f) \in Data
  BY DEF Paths, Data
<1>2. \A q \in Requests : \A i \in 1..2 : Upload(q, i) # p
  BY NamesApart
<1>3. \A q \in Requests : /\ p = Result(q) => Product(r, f) = Product(q, "png")
                          /\ p = Converted(q) => Product(r, f) = Product(q, "jpeg")
  BY NamesApart
<1>4. DiskInv(Write(d, p, Product(r, f)))
  BY <1>1, <1>3, DiskWrite
<1> QED BY <1>2, <1>4 DEF Write

\* Downloading the picture keeps the invariant.
LEMMA DownloadInv ==
    ASSUME FilesInv, NEW r \in Requests, Download(r)
    PROVE  FilesInv'
<1> DEFINE old == job[r]
           new == [old EXCEPT !.step = "answer"]
<1>1. old \in JobType /\ JobInv(r, old, disk) /\ old.step = "made"
  BY DEF FilesInv, Download, At
<1>2. disk' = Write(disk, Result(r), Product(r, "png")) /\ Change(r, new) /\ boot' = boot
  BY DEF Download
<1>3. new \in JobType
  <2>1. "answer" \in Steps
    BY DEF Steps
  <2> QED BY <1>1, <2>1 DEF JobType
<1>4. /\ new.step = "answer" /\ new.kind = old.kind /\ new.images = old.images /\ new.sent = old.sent
      /\ new.answer = old.answer /\ new.link = old.link /\ new.paths = old.paths /\ new.local = old.local
  BY <1>1 DEF JobType
<1>5. /\ DiskInv(disk')
      /\ \A q \in Requests : \A i \in 1..2 : Upload(q, i) \in DOMAIN disk' =>
            Upload(q, i) \in DOMAIN disk /\ disk'[Upload(q, i)].data = disk[Upload(q, i)].data
  BY <1>2, ResultWrite DEF FilesInv, Formats
<1>6. JobInv(r, old, disk')
  BY <1>1, <1>5, OtherJob
<1>7. JobInv(r, new, disk')
  <2>1. new.kind = "edit" => \A i \in DOMAIN new.sent : new.sent[i] \in {new.images[i], None}
    BY <1>1, <1>4 DEF JobInv, EditInv
  <2> HIDE DEF new
  <2>2. PathsInv(new)
    BY <1>1, <1>4 DEF JobInv, PathsInv
  <2> QED BY <1>1, <1>3, <1>4, <1>6, <2>1, <2>2, StepJob DEF None
<1> HIDE DEF new
<1> QED BY <1>2, <1>5, <1>7, OneJob

\* A link of this process to a result of r.
LEMMA LinkType ==
    ASSUME FilesInv, NEW r \in Requests, NEW p \in {Result(r), Converted(r)}
    PROVE  Link(p) \in [path : Paths, boot : Nat] /\ Link(p) # NoLink /\ Link(p).path = p
<1>1. p \in Paths /\ boot \in Nat
  BY DEF Paths, FilesInv
<1>2. Link(p) \in [path : Paths, boot : Nat] /\ Link(p).path = p
  BY <1>1 DEF Link
<1>3. "path" \in DOMAIN Link(p) /\ "path" \notin DOMAIN NoLink
  BY DEF Link, NoLink
<1> QED BY <1>2, <1>3

\* Converting, linking and answering keep the invariant.
LEMMA RespondInv ==
    ASSUME FilesInv, NEW r \in Requests, Respond(r)
    PROVE  FilesInv'
<1>1. job[r].step = "answer" /\ {"b64", "url"} \subseteq Answers
  BY DEF Respond, At, Answers
<1>2. CASE Fail(r, "500")
  BY <1>1, <1>2, FailInv
<1>3. CASE Finish(r, "b64", NoLink)
  BY <1>1, <1>3, FinishInv DEF None
<1>4. CASE Finish(r, "url", Link(Result(r)))
  <2>1. Link(Result(r)) \in [path : Paths, boot : Nat] /\ Link(Result(r)) # NoLink
        /\ Link(Result(r)).path = Result(r)
    BY LinkType
  <2> QED BY <1>1, <1>4, <2>1, FinishInv DEF None
<1>5. CASE RespondConverted(r)
  <2> DEFINE link == Link(Converted(r))
             new == Answered(r, "url", link)
  <2>1. link \in [path : Paths, boot : Nat] /\ link # NoLink /\ link.path = Converted(r)
    BY LinkType
  <2>2. disk' = Write(Cleaned(r), Converted(r), Product(r, "jpeg")) /\ Change(r, new) /\ boot' = boot
    BY <1>5 DEF RespondConverted
  <2>3. /\ DiskInv(disk')
        /\ \A q \in Requests : \A i \in 1..2 : Upload(q, i) \in DOMAIN disk' =>
              Upload(q, i) \in DOMAIN Cleaned(r) /\ disk'[Upload(q, i)].data = Cleaned(r)[Upload(q, i)].data
    BY <2>2, CleanedInv, ResultWrite DEF Formats
  <2>4. \A q \in Requests : \A i \in 1..2 : Upload(q, i) \in DOMAIN disk' =>
              Upload(q, i) \in DOMAIN disk /\ disk'[Upload(q, i)].data = disk[Upload(q, i)].data
    BY <2>3, CleanedInv
  <2>5. JobInv(r, job[r], disk')
    BY <2>4, OtherJob DEF FilesInv
  <2> HIDE DEF link
  <2>6. JobInv(r, new, disk')
    BY <1>1, <2>1, <2>5, AnsweredJob DEF None
  <2> HIDE DEF new
  <2> QED BY <2>2, <2>3, <2>4, <2>6, OneJob
<1> QED BY <1>2, <1>3, <1>4, <1>5 DEF Respond

\* Time passes for every file and changes none.
LEMMA OlderInv ==
    ASSUME FilesInv, Older
    PROVE  FilesInv'
<1>1. disk' = Age /\ job' = job /\ boot' = boot
  BY DEF Older
<1>2. \A p \in DOMAIN disk : disk[p] \in [data : Data, age : Nat]
  BY DEF FilesInv, DiskInv
<1>3. /\ DOMAIN disk' = DOMAIN disk
      /\ \A p \in DOMAIN disk : disk'[p] \in [data : Data, age : Nat] /\ disk'[p].data = disk[p].data
  BY <1>1, <1>2 DEF Age
<1>4. disk' \in [DOMAIN disk' -> [data : Data, age : Nat]]
  <2>1. disk' = [p \in DOMAIN disk |-> disk'[p]]
    BY <1>1 DEF Age
  <2> QED BY <1>3, <2>1
<1>5. DiskInv(disk')
  BY <1>3, <1>4 DEF FilesInv, DiskInv
<1>6. \A q \in Requests : JobInv(q, job[q], disk')
  BY <1>3, OtherJob DEF FilesInv
<1> QED BY <1>1, <1>5, <1>6 DEF FilesInv

\* A sweep of aged files keeps the invariant.
LEMMA SweepInv ==
    ASSUME FilesInv, NEW p \in Paths, Sweep(p)
    PROVE  FilesInv'
<1>1. disk' = Without(disk, {p}) /\ job' = job /\ boot' = boot
  BY DEF Sweep
<1>2. DiskInv(disk')
  BY <1>1, DiskWithout DEF FilesInv
<1>3. \A q \in Requests : JobInv(q, job[q], disk')
  <2>1. \A z \in DOMAIN disk' : z \in DOMAIN disk /\ disk'[z] = disk[z]
    BY <1>1 DEF Without, Restrict
  <2> QED BY <2>1, OtherJob DEF FilesInv
<1> QED BY <1>1, <1>2, <1>3 DEF FilesInv

\* A restart forgets the requests under way; what they left on disk stays.
LEMMA RestartInv ==
    ASSUME FilesInv, Restart
    PROVE  FilesInv'
<1> DEFINE lost == [Idle EXCEPT !.step = "lost"]
<1>1. /\ disk' = disk /\ boot' = boot + 1
      /\ job' = [r \in Requests |-> IF job[r].step \in {None, "done"} THEN job[r] ELSE lost]
  BY DEF Restart
<1>2. /\ lost.step = "lost" /\ lost.kind = None /\ lost.answer = None /\ lost.images = <<>> /\ lost.paths = <<>>
  BY DEF Idle
<1>3. lost \in JobType
  <2>1. /\ "lost" \in Steps /\ None \in Kinds \cup {None} /\ 0 \in Nat
        /\ None \in {None, "500", "503"} /\ None \in Answers
        /\ NoLink \in {NoLink} \cup [path : Paths, boot : Nat] /\ <<>> \in Seq(Images \cup {Unreadable})
    BY DEF Steps, Answers
  <2>2. NoPath \in {NoPath} \cup Paths
    OBVIOUS
  <2> QED BY <2>1, <2>2, EmptySeqs DEF JobType, Idle
<1> HIDE DEF lost
<1>4. \A r \in Requests : JobInv(r, lost, disk)
  <2>1. lost.images \in Seq(Images)
    BY <1>2
  <2> QED BY <1>2, <1>3, <2>1 DEF JobInv, UploadInv, PathsInv, LinkInv, None
<1>5. \A r \in Requests : JobInv(r, job'[r], disk)
  BY <1>1, <1>4 DEF FilesInv
<1>6. job' \in [Requests -> JobType]
  BY <1>1, <1>3 DEF FilesInv
<1> QED BY <1>1, <1>5, <1>6 DEF FilesInv

\* The directory starts empty and no request has begun.
LEMMA FilesInitial ==
    ASSUME FilesInit
    PROVE  FilesInv
<1>1. DOMAIN disk = {} /\ disk \in [DOMAIN disk -> [data : Data, age : Nat]]
  BY DEF FilesInit
<1>2. DiskInv(disk)
  BY <1>1 DEF DiskInv
<1>3. Idle \in JobType
  <2>1. /\ None \in Steps /\ None \in Kinds \cup {None} /\ 0 \in Nat
        /\ None \in {None, "500", "503"} /\ None \in Answers
        /\ NoLink \in {NoLink} \cup [path : Paths, boot : Nat] /\ <<>> \in Seq(Images \cup {Unreadable})
    BY DEF Steps, Answers
  <2> QED BY <2>1, EmptySeqs DEF JobType, Idle
<1>4. \A r \in Requests : JobInv(r, Idle, disk)
  <2>1. /\ Idle.step = None /\ Idle.kind = None /\ Idle.answer = None /\ Idle.images = <<>> /\ Idle.paths = <<>>
    BY DEF Idle
  <2>2. Idle.images \in Seq(Images)
    BY <2>1
  <2> QED BY <1>1, <1>3, <2>1, <2>2 DEF JobInv, UploadInv, PathsInv, LinkInv, None
<1> QED BY <1>2, <1>3, <1>4 DEF FilesInit, FilesInv

\* Every step of the file store keeps the invariant.
LEMMA FilesStep ==
    ASSUME FilesInv, [FilesNext]_fileVars
    PROVE  FilesInv'
<1>1. CASE \E r \in Requests : \/ Begin(r) \/ Fetch(r) \/ Save(r) \/ Send(r) \/ Busy(r)
                               \/ NoResult(r) \/ Download(r) \/ Respond(r)
  BY <1>1, BeginInv, FetchInv, SaveInv, SendInv, BusyInv, NoResultInv, DownloadInv, RespondInv
<1>2. CASE Older
  BY <1>2, OlderInv
<1>3. CASE \E p \in Paths : Sweep(p)
  BY <1>3, SweepInv
<1>4. CASE Restart
  BY <1>4, RestartInv
<1>5. CASE UNCHANGED fileVars
  BY <1>5 DEF fileVars, FilesInv
<1> QED BY <1>1, <1>2, <1>3, <1>4, <1>5 DEF FilesNext

\* Every file is where its owner put it: the invariant behind the theorems below.
THEOREM FilesSafety == FilesSpec => []FilesInv
  BY FilesInitial, FilesStep, PTL DEF FilesSpec

\* An edit works on what its own caller sent, on every account it is tried on and
\* whatever is written and swept beside it.
THEOREM EditsKeepTheirUploads == FilesSpec => []UploadsOwn
<1>1. FilesInv => UploadsOwn
  BY DEF FilesInv, JobInv, EditInv, UploadsOwn
<1> QED BY <1>1, FilesSafety, PTL

\* What a step of the system may remove: a file on its way in or named by a caller,
\* by the request that holds it, and an expired file.
LEMMA Removed ==
    ASSUME FilesInv, [FilesNext]_fileVars, NEW p \in DOMAIN disk, p \notin DOMAIN disk',
           p \notin Temporary
    PROVE  \/ disk[p].age > TTL
           \/ \E q \in Requests : job[q].local = p /\ job[q].paths # <<>> /\ job'[q].paths = <<>>
<1> DEFINE Handed == \E q \in Requests : job[q].local = p /\ job[q].paths # <<>> /\ job'[q].paths = <<>>
<1> SUFFICES Handed \/ disk[p].age > TTL
  OBVIOUS
<1>1. ASSUME NEW r \in Requests, p \in DOMAIN Cleaned(r) => p \in DOMAIN disk'
      PROVE  job[r].local = p /\ job[r].paths # <<>>
  <2>1. p \in Range(job[r].paths)
    BY <1>1 DEF Cleaned, Without, Restrict
  <2>2. PICK i \in DOMAIN job[r].paths : p = job[r].paths[i]
    BY <2>1 DEF Range
  <2>3. p \in Temporary \cup {job[r].local}
    BY <2>2 DEF FilesInv, JobInv, PathsInv
  <2> QED BY <2>2, <2>3
<1>2. CASE \E r \in Requests : Begin(r) \/ Send(r)
  BY <1>2 DEF Begin, Send
<1>11. ASSUME NEW r \in Requests, NEW new, Change(r, new), new.paths = <<>>,
              p \in DOMAIN Cleaned(r) => p \in DOMAIN disk'
       PROVE  Handed
  <2>1. job'[r].paths = <<>>
    BY <1>11 DEF Change, FilesInv
  <2> QED BY <1>1, <1>11, <2>1
<1>3. ASSUME NEW r \in Requests, NEW answer, NEW link, Finish(r, answer, link) PROVE Handed
  <2>1. Answered(r, answer, link).paths = <<>>
    BY DEF FilesInv, JobType, Answered
  <2> HIDE DEF Handed
  <2> QED BY <1>3, <1>11, <2>1 DEF Finish
<1>4. ASSUME NEW r \in Requests, NEW error, Fail(r, error) PROVE Handed
  <2>1. CASE Finish(r, error, NoLink)
    <3> HIDE DEF Handed
    <3> QED BY <1>3, <2>1
  <2>2. CASE Replay(r, error)
    <3> DEFINE new == [job[r] EXCEPT !.step = "save", !.paths = <<>>, !.sent = <<>>,
                                     !.tries = @ + 1, !.error = error, !.read = 0]
    <3>1. new.paths = <<>>
      BY DEF FilesInv, JobType
    <3>2. disk' = Cleaned(r) /\ Change(r, new)
      BY <2>2 DEF Replay
    <3> HIDE DEF Handed, new
    <3> QED BY <1>11, <3>1, <3>2
  <2> QED BY <1>4, <2>1, <2>2 DEF Fail
<1>5. CASE \E r \in Requests : Fetch(r) \/ Save(r) \/ Download(r)
  <2> HIDE DEF Handed
  <2> QED BY <1>3, <1>5 DEF Fetch, Save, Download, Write
<1>6. CASE \E r \in Requests : Busy(r) \/ NoResult(r)
  <2> HIDE DEF Handed
  <2> QED BY <1>3, <1>4, <1>6 DEF Busy, NoResult
<1>7. CASE \E r \in Requests : Respond(r)
  <2> HIDE DEF Handed
  <2>1. PICK r \in Requests : Respond(r)
    BY <1>7
  <2>2. CASE RespondConverted(r)
    <3> DEFINE new == Answered(r, "url", Link(Converted(r)))
    <3>1. disk' = Write(Cleaned(r), Converted(r), Product(r, "jpeg")) /\ Change(r, new)
      BY <2>2 DEF RespondConverted
    <3>2. new.paths = <<>>
      BY DEF FilesInv, JobType, Answered
    <3> HIDE DEF new
    <3> QED BY <1>11, <3>1, <3>2 DEF Write
  <2> QED BY <1>3, <1>4, <2>1, <2>2 DEF Respond
<1>8. CASE Older
  BY <1>8 DEF Older, Age
<1>9. CASE \E q \in Paths : Sweep(q)
  <2>1. PICK q \in Paths : Sweep(q)
    BY <1>9
  <2>2. p = q
    BY <2>1 DEF Sweep, Without, Restrict
  <2> QED BY <2>1, <2>2 DEF Sweep, Expired
<1>10. CASE Restart \/ UNCHANGED fileVars
  BY <1>10 DEF Restart, fileVars
<1> HIDE DEF Handed
<1> QED BY <1>2, <1>5, <1>6, <1>7, <1>8, <1>9, <1>10 DEF FilesNext

\* A link leads to the picture of its own request and nothing else, and the file
\* stays until it is expired, or cleaned up by a request that was given its path.
THEOREM LinksServe == FilesSpec => LinkServes
<1> DEFINE Kept == \A r \in Requests : job[r].answer = "url" =>
             LET p == job[r].link.path
             IN  /\ Served(job[r].link) \in {Product(r, f) : f \in Formats} \cup {None}
                 /\ p \in DOMAIN disk /\ p \notin DOMAIN disk' =>
                       \/ disk[p].age > TTL
                       \/ \E q \in Requests : /\ job[q].local = p
                                             /\ job[q].paths # <<>> /\ job'[q].paths = <<>>
<1>1. ASSUME FilesInv, [FilesNext]_fileVars PROVE Kept
  <2> SUFFICES ASSUME NEW r \in Requests, job[r].answer = "url"
               PROVE  /\ Served(job[r].link) \in {Product(r, f) : f \in Formats} \cup {None}
                      /\ job[r].link.path \in DOMAIN disk /\ job[r].link.path \notin DOMAIN disk'
                            => \/ disk[job[r].link.path].age > TTL
                               \/ \E q \in Requests : /\ job[q].local = job[r].link.path
                                                     /\ job[q].paths # <<>> /\ job'[q].paths = <<>>
    OBVIOUS
  <2>1. job[r].link.path \in {Result(r), Converted(r)}
    BY <1>1 DEF FilesInv, JobInv, LinkInv
  <2>2. Served(job[r].link) \in {Product(r, f) : f \in Formats} \cup {None}
    BY <1>1, <2>1 DEF FilesInv, DiskInv, Served, Formats
  <2>3. job[r].link.path \notin Temporary
    BY <2>1, ResultsStay
  <2> QED BY <1>1, <2>2, <2>3, Removed
<1>2. FilesInv /\ [FilesNext]_fileVars => [Kept]_fileVars
  BY <1>1
<1> HIDE DEF Kept
<1>3. FilesSpec => [][Kept]_fileVars
  BY <1>2, FilesSafety, PTL DEF FilesSpec
<1> QED BY <1>3, PTL DEF LinkServes, Kept

-------------------------------------------------------------------------------
(* The smallest number of a set. *)

\* A nonempty set of naturals has a smallest element: the initial segments up to its
\* elements are finite sets, and those are well founded under inclusion.
LEMMA SmallestExists ==
    ASSUME NEW S \in SUBSET Nat, S # {}
    PROVE  /\ Min(S) \in S
           /\ \A y \in S : Min(S) <= y
<1> DEFINE R == StrictSubsetOrdering(Nat)
           T == {0..x : x \in S}
<1>1. T \subseteq FiniteSubsetsOf(Nat) /\ T # {}
  <2>1. \A x \in Nat : IsFiniteSet(0..x) /\ 0..x \in SUBSET Nat
    BY FS_Interval
  <2> QED BY <2>1 DEF FiniteSubsetsOf
<1>2. PICK t \in T : \A u \in T : ~ (<<u, t>> \in R)
  <2>1. IsWellFoundedOn(R, FiniteSubsetsOf(Nat))
    BY FS_StrictSubsetOrderingWellFounded
  <2> HIDE DEF R, T
  <2> QED BY <1>1, <2>1, WFMin
<1>3. PICK x \in S : t = 0..x
  BY <1>2
<1>4. \A y \in S : x <= y
  <2> SUFFICES ASSUME NEW y \in S, y < x PROVE FALSE
    OBVIOUS
  <2>1. x \in Nat /\ y \in Nat
    OBVIOUS
  <2>2. 0..y \subseteq 0..x /\ 0..y \in SUBSET Nat /\ 0..x \in SUBSET Nat
    BY <2>1
  <2>3. x \in 0..x /\ x \notin 0..y
    BY <2>1
  <2>4. <<0..y, 0..x>> \in R
    BY <2>2, <2>3 DEF StrictSubsetOrdering
  <2>5. 0..y \in T
    OBVIOUS
  <2> QED BY <1>2, <1>3, <2>4, <2>5
<1> QED BY <1>4 DEF Min

-------------------------------------------------------------------------------
(* AccountFiles: the registry, the usage and their files. *)

\* A registry gives each of its accounts a number of its own, the default one included.
RegistryOk(reg) ==
    /\ DOMAIN reg \subseteq Ids /\ Default \in DOMAIN reg
    /\ reg = [i \in DOMAIN reg |-> reg[i]]
    /\ \A i \in DOMAIN reg : reg[i] \in Numbers
    /\ \A i, j \in DOMAIN reg : i # j => reg[i] # reg[j]

\* Every account's cooldown ends at some time.
UsageOk(usage) ==
    /\ usage = [i \in DOMAIN usage |-> usage[i]]
    /\ \A i \in DOMAIN usage : usage[i] \in Nat

\* The accounts that may serve are the ones memory and file agree on, and usage that
\* is not marked for saving is in its file, or was never read.
AccInv ==
    /\ RegistryOk(registry) /\ RegistryOk(registryFile)
    /\ \A i \in manager : /\ i \in DOMAIN registry \cap DOMAIN registryFile
                          /\ registry[i] = registryFile[i]
    /\ UsageOk(until) /\ UsageOk(usageFile)
    /\ ~dirty => until = usageFile \/ until = NoAccounts
    /\ time \in Nat

\* There are more numbers than accounts, so a new account gets one nobody has.
LEMMA NumberIsNew ==
    ASSUME NEW reg, RegistryOk(reg)
    PROVE  NextNumber(reg) \in Numbers /\ \A i \in DOMAIN reg : reg[i] # NextNumber(reg)
<1> DEFINE S == {n \in Numbers : \A i \in DOMAIN reg : reg[i] # n}
<1>1. S # {}
  <2> SUFFICES ASSUME \A n \in Numbers : \E i \in DOMAIN reg : reg[i] = n PROVE FALSE
    OBVIOUS
  <2> DEFINE f == [n \in Numbers |-> CHOOSE i \in DOMAIN reg : reg[i] = n]
  <2>1. \A n \in Numbers : f[n] \in DOMAIN reg /\ reg[f[n]] = n
    OBVIOUS
  <2>2. MaxAccounts \in Nat
    BY AccountFilesAssumption
  <2>3. f \in [Numbers -> Ids]
    BY <2>1 DEF RegistryOk
  <2>4. /\ IsFiniteSet(Ids) /\ Cardinality(Ids) = MaxAccounts + 1
        /\ IsFiniteSet(Numbers) /\ Cardinality(Numbers) = MaxAccounts + 2
    BY <2>2, FS_Interval DEF Ids, Numbers
  <2>5. Cardinality(Ids) < Cardinality(Numbers)
    BY <2>2, <2>4
  <2> HIDE DEF f
  <2>6. PICK m \in Numbers : \E n \in Numbers : m # n /\ f[m] = f[n]
    BY <2>3, <2>4, <2>5, FS_PigeonHole
  <2>7. PICK n \in Numbers : m # n /\ f[m] = f[n]
    BY <2>6
  <2> QED BY <2>1, <2>7
<1>2. S \in SUBSET Nat
  BY AccountFilesAssumption DEF Numbers
<1>3. Min(S) \in S
  <2> HIDE DEF S
  <2> QED BY <1>1, <1>2, SmallestExists
<1> QED BY <1>3 DEF NextNumber

\* With adds or replaces one entry and leaves the others as they are.
LEMMA WithFacts ==
    ASSUME NEW f, NEW id, NEW x
    PROVE  /\ DOMAIN With(f, id, x) = DOMAIN f \cup {id}
           /\ With(f, id, x)[id] = x
           /\ \A i \in DOMAIN f : i # id => With(f, id, x)[i] = f[i]
           /\ With(f, id, x) = [i \in DOMAIN With(f, id, x) |-> With(f, id, x)[i]]
  BY DEF With

\* Adding an account with a new number keeps a registry in order.
LEMMA RegistryWith ==
    ASSUME NEW reg, RegistryOk(reg), NEW id \in Ids, id \notin DOMAIN reg
    PROVE  RegistryOk(With(reg, id, NextNumber(reg)))
<1> DEFINE n == NextNumber(reg)
           new == With(reg, id, n)
<1>1. n \in Numbers /\ \A i \in DOMAIN reg : reg[i] # n
  BY NumberIsNew
<1> HIDE DEF n
<1>2. /\ DOMAIN new = DOMAIN reg \cup {id} /\ new[id] = n
      /\ \A i \in DOMAIN reg : new[i] = reg[i]
      /\ new = [i \in DOMAIN new |-> new[i]]
  BY DEF With
<1> HIDE DEF new
<1>3. RegistryOk(new)
  BY <1>1, <1>2 DEF RegistryOk
<1> QED BY <1>3 DEF new, n

\* Removing one that is not the default does too.
LEMMA RegistryWithout ==
    ASSUME NEW reg, RegistryOk(reg), NEW id, id # Default
    PROVE  RegistryOk(Restrict(reg, DOMAIN reg \ {id}))
  BY DEF RegistryOk, Restrict

\* What a save writes is the registry or, when it fails, what was there.
LEMMA SaveFacts ==
    ASSUME NEW reg, SaveRegistry(reg)
    PROVE  registryFile' = reg \/ registryFile' = registryFile
  BY DEF SaveRegistry

\* A new account: memory, file and manager agree on it, or it is in memory alone.
LEMMA CreateInv ==
    ASSUME AccInv, Create
    PROVE  AccInv'
<1> DEFINE id == Min(Free)
           reg == With(registry, id, NextNumber(registry))
<1>1. id \in Free
  <2>1. Free \in SUBSET Nat /\ Free # {}
    BY AccountFilesAssumption DEF Create, Free
  <2> QED BY <2>1, SmallestExists
<1>2. id \in Ids /\ id \notin DOMAIN registry
  BY <1>1, AccountFilesAssumption DEF Free, Ids
<1> HIDE DEF id
<1>3. RegistryOk(reg)
  BY <1>2, RegistryWith DEF AccInv
<1>4. /\ DOMAIN reg = DOMAIN registry \cup {id}
      /\ \A i \in DOMAIN registry : reg[i] = registry[i]
  BY <1>2 DEF With
<1>5. /\ registry' = reg
      /\ \/ registryFile' = reg /\ manager' = manager \cup {id}
         \/ UNCHANGED <<registryFile, manager>>
      /\ UNCHANGED <<until, usageFile, dirty, time>>
  BY DEF Create, id
<1> HIDE DEF reg
<1>6. \A i \in manager' : /\ i \in DOMAIN registry' \cap DOMAIN registryFile'
                          /\ registry'[i] = registryFile'[i]
  BY <1>4, <1>5 DEF AccInv
<1>7. RegistryOk(registry') /\ RegistryOk(registryFile')
  BY <1>3, <1>5 DEF AccInv
<1> QED BY <1>5, <1>6, <1>7 DEF AccInv, UsageOk, RegistryOk

\* PATCH keeps the invariant, whether the file was written or not.
LEMMA UpdateInv ==
    ASSUME AccInv, NEW id, Update(id)
    PROVE  AccInv'
<1>1. /\ registryFile' = registry \/ registryFile' = registryFile
      /\ UNCHANGED <<registry, manager, until, usageFile, dirty, time>>
  BY SaveFacts DEF Update
<1> QED BY <1>1 DEF AccInv, UsageOk, RegistryOk

\* DELETE takes an account that is not the default one, and keeps the invariant.
LEMMA DeleteInv ==
    ASSUME AccInv, NEW id, Delete(id)
    PROVE  AccInv'
<1> DEFINE reg == Restrict(registry, DOMAIN registry \ {id})
<1>1. /\ registry' = reg /\ (registryFile' = reg \/ registryFile' = registryFile)
      /\ manager' = manager \ {id} /\ id # Default
      /\ UNCHANGED <<until, usageFile, dirty, time>>
  BY SaveFacts DEF Delete
<1>2. RegistryOk(reg)
  BY <1>1, RegistryWithout DEF AccInv
<1>3. DOMAIN reg = DOMAIN registry \ {id} /\ \A i \in DOMAIN reg : reg[i] = registry[i]
  BY DEF Restrict
<1> HIDE DEF reg
<1>4. \A i \in manager' : /\ i \in DOMAIN registry' \cap DOMAIN registryFile'
                          /\ registry'[i] = registryFile'[i]
  BY <1>1, <1>3 DEF AccInv
<1>5. RegistryOk(registry') /\ RegistryOk(registryFile')
  BY <1>1, <1>2 DEF AccInv
<1> QED BY <1>1, <1>4, <1>5 DEF AccInv, UsageOk, RegistryOk

\* Noting a limit moves a cooldown in memory and marks it unsaved.
LEMMA NoteLimitInv ==
    ASSUME AccInv, NEW id, NoteLimit(id)
    PROVE  AccInv'
<1>1. PICK length \in Cooldowns : until' = With(until, id, time + length)
  BY DEF NoteLimit
<1>2. time + length \in Nat
  <2>1. time \in Nat /\ length \in Nat
    BY AccountFilesAssumption DEF AccInv
  <2> QED BY <2>1
<1>5. dirty' = TRUE /\ UNCHANGED <<registry, registryFile, manager, usageFile, time>>
  BY DEF NoteLimit
<1>3. \A i \in DOMAIN until' : until'[i] \in Nat
  <2>1. \A i \in DOMAIN until' : until'[i] = time + length \/ (i \in DOMAIN until /\ until'[i] = until[i])
    BY <1>1 DEF With
  <2> QED BY <1>2, <2>1 DEF AccInv, UsageOk
<1>4. until' = [i \in DOMAIN until' |-> until'[i]]
  BY <1>1 DEF With
<1>6. UsageOk(until')
  BY <1>3, <1>4 DEF UsageOk
<1> QED BY <1>5, <1>6 DEF AccInv, UsageOk, RegistryOk

\* A save writes the cooldowns of memory or leaves them marked unsaved.
LEMMA SaveUsageInv ==
    ASSUME AccInv, SaveUsage
    PROVE  AccInv'
<1>1. /\ usageFile' = until \/ (usageFile' = usageFile /\ dirty')
      /\ UNCHANGED <<registry, registryFile, manager, until, time>>
  BY DEF SaveUsage
<1>2. UsageOk(until)' /\ UsageOk(usageFile)'
  BY <1>1 DEF AccInv, UsageOk
<1>3. ~dirty' => until' = usageFile' \/ until' = NoAccounts
  BY <1>1
<1> QED BY <1>1, <1>2, <1>3 DEF AccInv, RegistryOk

\* Time that passes takes no cooldown away.
LEMMA PassInv ==
    ASSUME AccInv, Pass
    PROVE  AccInv'
<1>1. time' = time + 1 /\ UNCHANGED <<registry, registryFile, manager, until, usageFile, dirty>>
  BY DEF Pass
<1>2. time' \in Nat
  BY <1>1 DEF AccInv
<1> QED BY <1>1, <1>2 DEF AccInv, UsageOk, RegistryOk

\* A start takes what the files hold, and nothing where it cannot read one.
LEMMA StartInv ==
    ASSUME AccInv, NEW unread, Start(unread)
    PROVE  AccInv'
<1> DEFINE reg == Seeded(IF "registry" \in unread THEN NoAccounts ELSE registryFile)
<1>1. /\ registry' = reg /\ registryFile' = reg /\ manager' = DOMAIN reg
      /\ until' = (IF "usage" \in unread THEN NoAccounts ELSE usageFile)
      /\ dirty' = FALSE /\ UNCHANGED <<usageFile, time>>
  BY DEF Start
<1>2. RegistryOk(reg)
  <2>1. RegistryOk(With(NoAccounts, Default, 1))
    BY AccountFilesAssumption DEF RegistryOk, With, NoAccounts, Default, Ids, Numbers
  <2>2. Default \notin DOMAIN NoAccounts /\ Default \in DOMAIN registryFile
    BY DEF AccInv, RegistryOk, NoAccounts
  <2> QED BY <2>1, <2>2 DEF Seeded, AccInv
<1> HIDE DEF reg
<1>3. UsageOk(NoAccounts)
  BY DEF UsageOk, NoAccounts
<1>4. until' = usageFile' \/ until' = NoAccounts
  BY <1>1
<1>5. UsageOk(until)' /\ UsageOk(usageFile)'
  BY <1>1, <1>3 DEF AccInv, UsageOk
<1>6. RegistryOk(registry)' /\ RegistryOk(registryFile)'
  BY <1>1, <1>2 DEF RegistryOk
<1> QED BY <1>1, <1>4, <1>5, <1>6 DEF AccInv

\* The registry starts with the default account, and nothing is cooling down.
LEMMA AccInitial ==
    ASSUME AccInit
    PROVE  AccInv
<1>1. RegistryOk(registry)
  <2>1. registry = With(NoAccounts, Default, 1)
    BY DEF AccInit, Seeded, NoAccounts
  <2> QED BY <2>1, AccountFilesAssumption DEF RegistryOk, With, NoAccounts, Default, Ids, Numbers
<1>2. UsageOk(NoAccounts)
  BY DEF UsageOk, NoAccounts
<1>3. manager = {Default} /\ registryFile = registry /\ until = NoAccounts
      /\ usageFile = NoAccounts /\ time = 0
  BY DEF AccInit
<1>4. Default \in DOMAIN registry
  BY <1>1 DEF RegistryOk
<1> QED BY <1>1, <1>2, <1>3, <1>4 DEF AccInv

\* Every step of the account files keeps the invariant.
LEMMA AccStep ==
    ASSUME AccInv, [AccNext]_accVars
    PROVE  AccInv'
<1>1. CASE Create \/ SaveUsage \/ Pass
  BY <1>1, CreateInv, SaveUsageInv, PassInv
<1>2. CASE \E id \in Ids : Update(id) \/ Delete(id) \/ NoteLimit(id)
  BY <1>2, UpdateInv, DeleteInv, NoteLimitInv
<1>3. CASE \E list \in ProxyLists : ReplaceProxies(list)
  BY <1>3 DEF ReplaceProxies, AccInv, UsageOk, RegistryOk
<1>4. CASE \E unread \in SUBSET Stores : Start(unread)
  BY <1>4, StartInv
<1>5. CASE UNCHANGED accVars
  BY <1>5 DEF accVars, AccInv, UsageOk, RegistryOk
<1> QED BY <1>1, <1>2, <1>3, <1>4, <1>5 DEF AccNext

\* Memory and files agree on the accounts that serve, and no two accounts share a number.
THEOREM AccountsSafety == AccSpec => []AccInv
  BY AccInitial, AccStep, PTL DEF AccSpec

\* What an account goes out through is its own and stays with it.
THEOREM ProxiesOwned == AccSpec => ProxyOwn
<1> DEFINE Distinct == \A i, j \in DOMAIN registry : i # j => registry[i] # registry[j]
           Stays == \A id \in manager \cap manager' :
             LineFor(lines', registry', id) # LineFor(lines, registry, id)
               => \/ \E list \in ProxyLists : ReplaceProxies(list)
                  \/ \E unread \in SUBSET Stores :
                        /\ Start(unread)
                        /\ proxyFile # lines \/ unread \cap {"registry", "proxies"} # {}
<1>1. AccInv => Distinct
  BY DEF AccInv, RegistryOk
<1>2. ASSUME AccInv, [AccNext]_accVars PROVE Stays
  <2> SUFFICES ASSUME NEW id \in manager, id \in manager',
                      LineFor(lines', registry', id) # LineFor(lines, registry, id)
               PROVE  \/ \E list \in ProxyLists : ReplaceProxies(list)
                      \/ \E unread \in SUBSET Stores :
                            /\ Start(unread)
                            /\ proxyFile # lines \/ unread \cap {"registry", "proxies"} # {}
    OBVIOUS
  <2>1. id \in DOMAIN registry /\ id \in DOMAIN registryFile /\ registry[id] = registryFile[id]
    BY <1>2 DEF AccInv
  <2>2. lines' # lines \/ registry'[id] # registry[id]
    BY DEF LineFor
  <2>3. CASE Create
    <3>1. PICK new : new \notin DOMAIN registry /\ registry' = With(registry, new, NextNumber(registry))
      <4>1. Min(Free) \in Free
        <5>1. Free \in SUBSET Nat /\ Free # {}
          BY <2>3, AccountFilesAssumption DEF Create, Free
        <5> QED BY <5>1, SmallestExists
      <4> QED BY <2>3, <4>1 DEF Create, Free
    <3> QED BY <2>1, <2>2, <2>3, <3>1 DEF Create, With
  <2>4. CASE \E i \in Ids : Update(i) \/ NoteLimit(i)
    BY <2>2, <2>4 DEF Update, NoteLimit
  <2>5. CASE \E i \in Ids : Delete(i)
    BY <2>1, <2>2, <2>5 DEF Delete, Restrict
  <2>6. CASE SaveUsage \/ Pass \/ UNCHANGED accVars
    BY <2>2, <2>6 DEF SaveUsage, Pass, accVars
  <2>7. CASE \E list \in ProxyLists : ReplaceProxies(list)
    BY <2>7
  <2>8. CASE \E unread \in SUBSET Stores : Start(unread)
    <3>1. PICK unread \in SUBSET Stores : Start(unread)
      BY <2>8
    <3>2. CASE unread \cap {"registry", "proxies"} = {}
      <4>1. registry' = registryFile /\ lines' = proxyFile
        BY <1>2, <3>1, <3>2 DEF Start, Seeded, AccInv, RegistryOk
      <4>2. proxyFile # lines
        BY <2>1, <2>2, <4>1
      <4> QED BY <3>1, <4>2
    <3>3. CASE unread \cap {"registry", "proxies"} # {}
      BY <3>1, <3>3
    <3> QED BY <3>2, <3>3
  <2> QED BY <1>2, <2>3, <2>4, <2>5, <2>6, <2>7, <2>8 DEF AccNext
<1>3. AccInv /\ [AccNext]_accVars => [Stays]_accVars
  BY <1>2
<1> HIDE DEF Distinct, Stays
<1>4. AccSpec => []Distinct /\ [][Stays]_accVars
  BY <1>1, <1>3, AccountsSafety, PTL DEF AccSpec
<1> QED BY <1>4, PTL DEF ProxyOwn, Distinct, Stays

\* A cooldown outlives everything but a crash before the save and an unreadable file.
THEOREM CooldownsKept == AccSpec => CooldownKept
<1> DEFINE Kept == \A id \in Ids :
          InCooldown(id) /\ (id \notin DOMAIN until' \/ until'[id] < until[id])
            => \/ NoteLimit(id)
               \/ \E unread \in SUBSET Stores :
                     Start(unread) /\ (dirty \/ "usage" \in unread)
<1>1. ASSUME AccInv, [AccNext]_accVars PROVE Kept
  <2> SUFFICES ASSUME NEW id \in Ids, InCooldown(id),
                      id \notin DOMAIN until' \/ until'[id] < until[id]
               PROVE  \/ NoteLimit(id)
                      \/ \E unread \in SUBSET Stores :
                            Start(unread) /\ (dirty \/ "usage" \in unread)
    OBVIOUS
  <2>1. id \in DOMAIN until /\ until[id] \in Nat
    BY <1>1 DEF InCooldown, AccInv, UsageOk
  <2>2. until' # until
    BY <2>1
  <2>3. CASE Create \/ SaveUsage \/ Pass \/ UNCHANGED accVars
    BY <2>2, <2>3 DEF Create, SaveUsage, Pass, accVars
  <2>4. CASE \E i \in Ids : Update(i) \/ Delete(i)
    BY <2>2, <2>4 DEF Update, Delete
  <2>5. CASE \E i \in Ids : NoteLimit(i)
    <3>1. PICK i \in Ids : NoteLimit(i)
      BY <2>5
    <3>2. CASE i = id
      BY <3>1, <3>2
    <3>3. CASE i # id
      <4>1. id \in DOMAIN until' /\ until'[id] = until[id]
        BY <2>1, <3>1, <3>3 DEF NoteLimit, With
      <4> QED BY <2>1, <4>1
    <3> QED BY <3>2, <3>3
  <2>6. CASE \E list \in ProxyLists : ReplaceProxies(list)
    BY <2>2, <2>6 DEF ReplaceProxies
  <2>7. CASE \E unread \in SUBSET Stores : Start(unread)
    <3>1. PICK unread \in SUBSET Stores : Start(unread)
      BY <2>7
    <3>2. CASE dirty \/ "usage" \in unread
      BY <3>1, <3>2
    <3>3. CASE ~dirty /\ "usage" \notin unread
      <4>1. until' = usageFile
        BY <3>1, <3>3 DEF Start
      <4>2. until # NoAccounts
        BY <2>1 DEF NoAccounts
      <4> QED BY <1>1, <2>2, <3>3, <4>1, <4>2 DEF AccInv
    <3> QED BY <3>2, <3>3
  <2> QED BY <1>1, <2>3, <2>4, <2>5, <2>6, <2>7 DEF AccNext
<1>2. AccInv /\ [AccNext]_accVars => [Kept]_accVars
  BY <1>1
<1> HIDE DEF Kept
<1>3. AccSpec => [][Kept]_accVars
  BY <1>2, AccountsSafety, PTL DEF AccSpec
<1> QED BY <1>3, PTL DEF CooldownKept, Kept

-------------------------------------------------------------------------------
(* RequestLog: sets of records and their newest members. *)

\* A nonempty finite set of naturals has a largest element.
LEMMA LargestExists ==
    ASSUME NEW S \in SUBSET Nat, IsFiniteSet(S), S # {}
    PROVE  /\ Max(S) \in S
           /\ \A y \in S : y <= Max(S)
<1> DEFINE Above(x) == {z \in S : z > x}
           R == StrictSubsetOrdering(S)
           T == {Above(x) : x \in S}
<1>1. T \subseteq FiniteSubsetsOf(S) /\ T # {}
  <2>1. \A x \in S : Above(x) \in SUBSET S /\ IsFiniteSet(Above(x))
    BY FS_Subset
  <2> HIDE DEF Above
  <2> QED BY <2>1 DEF FiniteSubsetsOf
<1>2. PICK t \in T : \A u \in T : ~ (<<u, t>> \in R)
  <2>1. IsWellFoundedOn(R, FiniteSubsetsOf(S))
    BY FS_StrictSubsetOrderingWellFounded
  <2> HIDE DEF R, T
  <2> QED BY <1>1, <2>1, WFMin
<1>3. PICK x \in S : t = Above(x)
  BY <1>2
<1>4. \A y \in S : y <= x
  <2> SUFFICES ASSUME NEW y \in S, y > x PROVE FALSE
    OBVIOUS
  <2>1. Above(y) \subseteq Above(x) /\ Above(y) \in SUBSET S /\ Above(x) \in SUBSET S
    <3>1. x \in Nat /\ y \in Nat /\ \A z \in S : z \in Nat
      OBVIOUS
    <3>2. \A z \in S : z > y => z > x
      BY <3>1
    <3> QED BY <3>2
  <2>2. y \in Above(x) /\ y \notin Above(y)
    OBVIOUS
  <2>3. Above(y) \in T
    OBVIOUS
  <2> HIDE DEF Above
  <2>4. <<Above(y), Above(x)>> \in R
    BY <2>1, <2>2 DEF StrictSubsetOrdering
  <2> QED BY <1>2, <1>3, <2>3, <2>4
<1> QED BY <1>4 DEF Max

\* A set of records with one record per id.
IdsApart(records) == \A x, y \in records : x.id = y.id => x = y

\* What is newer than a newest record is newest, too.
LEMMA NewestUp ==
    ASSUME NEW S \in SUBSET Records, IsFiniteSet(S), NEW n \in Nat,
           NEW e \in Newest(S, n), NEW x \in S, x.id > e.id
    PROVE  x \in Newest(S, n)
<1> DEFINE X == {y \in S : y.id > x.id}
           E == {y \in S : y.id > e.id}
<1>1. e \in S /\ Cardinality(E) < n
  BY DEF Newest
<1>2. \A y \in S : y.id \in Nat
  BY DEF Records
<1>3. X \in SUBSET E /\ E \in SUBSET S
  BY <1>1, <1>2
<1>4. IsFiniteSet(E)
  BY <1>3, FS_Subset
<1>5. /\ IsFiniteSet(X) /\ Cardinality(X) <= Cardinality(E)
  <2> HIDE DEF X, E
  <2> QED BY <1>3, <1>4, FS_Subset
<1>6. Cardinality(X) \in Nat /\ Cardinality(E) \in Nat
  BY <1>4, <1>5, FS_CardinalityType
<1> HIDE DEF E
<1>7. Cardinality(X) < n
  <2> HIDE DEF X
  <2> QED BY <1>1, <1>5, <1>6
<1> QED BY <1>7 DEF Newest

\* There are no more newest records than asked for.
LEMMA NewestSize ==
    ASSUME NEW S \in SUBSET Records, IsFiniteSet(S), IdsApart(S), NEW n \in Nat \ {0}
    PROVE  /\ IsFiniteSet(Newest(S, n)) /\ Cardinality(Newest(S, n)) \in Nat
           /\ Cardinality(Newest(S, n)) <= n
<1> DEFINE N == Newest(S, n)
<1>1. N \in SUBSET S /\ IsFiniteSet(N) /\ Cardinality(N) \in Nat
  <2>1. N \in SUBSET S
    BY DEF Newest
  <2> HIDE DEF N
  <2>2. IsFiniteSet(N)
    BY <2>1, FS_Subset
  <2> QED BY <2>1, <2>2, FS_CardinalityType
<1>2. CASE N = {}
  <2>1. Cardinality(N) = 0
    <3> HIDE DEF N
    <3> QED BY <1>2, FS_EmptySet
  <2> QED BY <1>1, <2>1
<1>3. CASE N # {}
  <2>1. IdsOf(N) \in SUBSET Nat /\ IdsOf(N) # {}
    BY <1>1, <1>3 DEF IdsOf, Records
  <2>2. PICK low \in N : \A y \in N : low.id <= y.id
    <3>1. Min(IdsOf(N)) \in IdsOf(N) /\ \A y \in IdsOf(N) : Min(IdsOf(N)) <= y
      <4> HIDE DEF N
      <4> QED BY <2>1, SmallestExists
    <3> HIDE DEF N
    <3> QED BY <3>1 DEF IdsOf
  <2> DEFINE A == {y \in S : y.id > low.id}
  <2>3. Cardinality(A) < n /\ A \in SUBSET S /\ low \in S
    BY <2>2 DEF Newest
  <2>4. N \in SUBSET (A \cup {low})
    <3>1. \A y \in S : y.id \in Nat
      BY DEF Records
    <3> HIDE DEF N
    <3> QED BY <1>1, <2>2, <2>3, <3>1 DEF IdsApart
  <2> HIDE DEF A, N
  <2>5. IsFiniteSet(A)
    BY <2>3, FS_Subset
  <2>6. Cardinality(A) \in Nat
    BY <2>5, FS_CardinalityType
  <2>7. IsFiniteSet(A \cup {low}) /\ Cardinality(A \cup {low}) <= Cardinality(A) + 1
        /\ Cardinality(A \cup {low}) \in Nat
    <3>1. /\ IsFiniteSet(A \cup {low})
          /\ Cardinality(A \cup {low}) = IF low \in A THEN Cardinality(A) ELSE Cardinality(A) + 1
      BY <2>5, FS_AddElement
    <3> QED BY <2>6, <3>1
  <2>8. Cardinality(N) <= Cardinality(A \cup {low})
    BY <2>4, <2>7, FS_Subset
  <2>9. Cardinality(N) <= n
    BY <1>1, <2>3, <2>6, <2>7, <2>8
  <2> QED BY <1>1, <2>9 DEF N
<1> QED BY <1>2, <1>3

\* A dictionary of at most n records has at most n ids.
LEMMA IdsOfSequence ==
    ASSUME NEW d \in Seq(Records)
    PROVE  /\ IsFiniteSet(IdsOf(ToSet(d))) /\ Cardinality(IdsOf(ToSet(d))) \in Nat
           /\ Cardinality(IdsOf(ToSet(d))) <= Len(d)
<1> DEFINE I == IdsOf(ToSet(d))
           n == Len(d)
           f == [i \in 1..n |-> d[i].id]
<1>1. n \in Nat /\ DOMAIN d = 1..n
  OBVIOUS
<1>2. f \in Surjection(1..n, I)
  BY <1>1 DEF Surjection, IdsOf, ToSet
<1>3. IsFiniteSet(1..n) /\ Cardinality(1..n) = n
  BY <1>1, FS_Interval
<1> HIDE DEF f, I, n
<1>4. IsFiniteSet(I) /\ Cardinality(I) <= n
  BY <1>2, <1>3, FS_Surjection
<1>5. Cardinality(I) \in Nat
  BY <1>4, FS_CardinalityType
<1> QED BY <1>4, <1>5 DEF I, n

\* Trim keeps a young row when every newer young row is of a full dictionary or less.
LEMMA TrimKeeps ==
    ASSUME NEW T \in SUBSET Records, IdsApart(T), NEW d \in Seq(Records), Len(d) <= MaxEntries,
           NEW e \in T, e.ts >= Cutoff, e.id \in IdsOf(ToSet(d)),
           \A x \in T : x.ts >= Cutoff /\ x.id > e.id => x.id \in IdsOf(ToSet(d))
    PROVE  e \in Trim(T)
<1> DEFINE X == {x \in {y \in T : y.ts >= Cutoff} : x.id > e.id}
           I == IdsOf(ToSet(d))
           J == I \ {e.id}
           f == [x \in X |-> x.id]
<1>1. IsFiniteSet(I) /\ Cardinality(I) \in Nat /\ Cardinality(I) <= Len(d) /\ Len(d) \in Nat
  BY IdsOfSequence
<1>2. IsFiniteSet(J) /\ Cardinality(J) = Cardinality(I) - 1
  <2> HIDE DEF I
  <2> QED BY <1>1, FS_RemoveElement DEF I
<1>3. f \in Injection(X, J)
  <2>1. \A x \in X : x.id \in J
    BY DEF Records
  <2>2. \A x, y \in X : x.id = y.id => x = y
    BY DEF IdsApart
  <2> HIDE DEF X, J
  <2> QED BY <2>1, <2>2 DEF Injection, IsInjective
<1> HIDE DEF f, J, X, I
<1>4. IsFiniteSet(X) /\ Cardinality(X) <= Cardinality(J)
  BY <1>2, <1>3, FS_Injection
<1>5. Cardinality(X) \in Nat /\ MaxEntries \in Nat
  BY <1>4, FS_CardinalityType, LogAssumption
<1>6. Cardinality(X) < MaxEntries
  BY <1>1, <1>2, <1>4, <1>5
<1> QED BY <1>6 DEF Trim, Newest, X

-------------------------------------------------------------------------------
(* RequestLog: the dictionary. *)

\* One record per id, and one that never was away came after every smaller id.
DictOk(d) ==
    /\ d \in Seq(Records)
    /\ \A i, j \in DOMAIN d : d[i].id = d[j].id => i = j
    /\ \A i, j \in DOMAIN d : i < j /\ ~d[j].back => d[i].id < d[j].id

\* Every element of a record is a natural number, a request, a state, a time, a flag.
LEMMA RecordFields ==
    ASSUME NEW e \in Records
    PROVE  /\ e.id \in Nat \ {0} /\ e.of \in Calls /\ e.state \in {"in_progress"} \cup Outcomes
           /\ e.ts \in 0..MaxClock /\ e.back \in BOOLEAN
  BY DEF Records

\* A dictionary without its first k - 1 records.
Suffix(d, k) == SubSeq(d, k, Len(d))

\* Pruning takes a front off: the aged one, and what is more than MaxEntries.
LEMMA PruneFacts ==
    ASSUME NEW d, DictOk(d), clock \in 0..MaxClock
    PROVE  \E k \in 1..(Len(d) + 1) :
              /\ Prune(d) = Suffix(d, k)
              /\ Len(d) - k + 1 <= MaxEntries
              /\ Len(d) <= MaxEntries => \A i \in 1..(k - 1) : d[i].ts < Cutoff
              /\ Len(d) > 0 /\ d[Len(d)].ts >= Cutoff => k <= Len(d)
<1> DEFINE young == {i \in DOMAIN d : d[i].ts >= Cutoff}
           first == IF young = {} THEN Len(d) + 1 ELSE Min(young)
           kept == SubSeq(d, first, Len(d))
           start == IF Len(kept) > MaxEntries THEN Len(kept) - MaxEntries + 1 ELSE 1
<1>1. /\ Len(d) \in Nat /\ DOMAIN d = 1..Len(d) /\ \A i \in DOMAIN d : d[i] \in Records
      /\ MaxEntries \in Nat \ {0} /\ Cutoff \in Int /\ \A i \in DOMAIN d : d[i].ts \in Int
  <2>1. d \in Seq(Records)
    BY DEF DictOk
  <2>2. Len(d) \in Nat /\ DOMAIN d = 1..Len(d) /\ \A i \in DOMAIN d : d[i] \in Records
    BY <2>1
  <2>3. MaxEntries \in Nat \ {0} /\ Cutoff \in Int
    BY LogAssumption DEF Cutoff
  <2>4. \A i \in DOMAIN d : d[i].ts \in Int
    BY <2>2, LogAssumption, RecordFields
  <2> QED BY <2>2, <2>3, <2>4
<1>2. /\ first \in 1..(Len(d) + 1)
      /\ \A i \in 1..(first - 1) : d[i].ts < Cutoff
      /\ Len(d) > 0 /\ d[Len(d)].ts >= Cutoff => first <= Len(d)
  <2>1. CASE young = {}
    BY <1>1, <2>1
  <2>2. CASE young # {}
    <3>1. young \in SUBSET Nat
      BY <1>1
    <3>2. Min(young) \in young /\ \A y \in young : Min(young) <= y
      <4> HIDE DEF young
      <4> QED BY <2>2, <3>1, SmallestExists
    <3>3. first = Min(young)
      BY <2>2
    <3>4. first \in 1..Len(d) /\ \A i \in DOMAIN d : d[i].ts >= Cutoff => first <= i
      BY <1>1, <3>2, <3>3
    <3> HIDE DEF first, young
    <3>5. \A i \in 1..(first - 1) : d[i].ts < Cutoff
      <4> SUFFICES ASSUME NEW i \in 1..(first - 1) PROVE d[i].ts < Cutoff
        OBVIOUS
      <4>1. i \in DOMAIN d /\ ~(first <= i)
        BY <1>1, <3>4
      <4>2. ~(d[i].ts >= Cutoff)
        BY <3>4, <4>1
      <4> QED BY <1>1, <4>1, <4>2
    <3> QED BY <1>1, <3>4, <3>5
  <2> QED BY <2>1, <2>2
<1> HIDE DEF first, young
<1>3. /\ kept \in Seq(Records) /\ Len(kept) = Len(d) - first + 1
      /\ \A i \in 1..Len(kept) : kept[i] = d[first + i - 1]
  <2>1. \A i \in first..Len(d) : d[i] \in Records
    BY <1>1, <1>2
  <2>2. /\ kept \in Seq(Records)
        /\ Len(kept) = IF first <= Len(d) THEN Len(d) - first + 1 ELSE 0
        /\ \A i \in 1..(Len(d) - first + 1) : kept[i] = d[first + i - 1]
    BY <1>1, <1>2, <2>1, SubSeqProperties
  <2> QED BY <1>1, <1>2, <2>2
<1> HIDE DEF kept
<1>4. Len(kept) \in Nat /\ start \in 1..(Len(kept) + 1) /\ Len(kept) - start + 1 <= MaxEntries
      /\ (Len(kept) <= MaxEntries => start = 1) /\ (Len(kept) > 0 => start <= Len(kept))
  BY <1>1, <1>3
<1> HIDE DEF start
<1> DEFINE k == first + start - 1
<1>5. k \in 1..(Len(d) + 1) /\ Len(d) - k + 1 <= MaxEntries
      /\ (Len(d) <= MaxEntries => k = first) /\ (first <= Len(d) => k <= Len(d))
  BY <1>1, <1>2, <1>3, <1>4
<1>6. Prune(d) = SubSeq(kept, start, Len(kept))
  BY DEF Prune, kept, first, young, start
<1>7. SubSeq(kept, start, Len(kept)) = SubSeq(d, k, Len(d))
  <2>1. /\ SubSeq(kept, start, Len(kept)) \in Seq(Records)
        /\ Len(SubSeq(kept, start, Len(kept))) = Len(kept) - start + 1
        /\ \A i \in 1..(Len(kept) - start + 1) : SubSeq(kept, start, Len(kept))[i] = kept[start + i - 1]
    <3>1. \A i \in start..Len(kept) : kept[i] \in Records
      BY <1>3, <1>4
    <3>2. /\ SubSeq(kept, start, Len(kept)) \in Seq(Records)
          /\ Len(SubSeq(kept, start, Len(kept))) = IF start <= Len(kept) THEN Len(kept) - start + 1 ELSE 0
          /\ \A i \in 1..(Len(kept) - start + 1) : SubSeq(kept, start, Len(kept))[i] = kept[start + i - 1]
      BY <1>4, <3>1, SubSeqProperties
    <3> QED BY <1>4, <3>2
  <2>2. /\ SubSeq(d, k, Len(d)) \in Seq(Records)
        /\ Len(SubSeq(d, k, Len(d))) = Len(d) - k + 1
        /\ \A i \in 1..(Len(d) - k + 1) : SubSeq(d, k, Len(d))[i] = d[k + i - 1]
    <3>1. \A i \in k..Len(d) : d[i] \in Records
      BY <1>1, <1>5
    <3>2. /\ SubSeq(d, k, Len(d)) \in Seq(Records)
          /\ Len(SubSeq(d, k, Len(d))) = IF k <= Len(d) THEN Len(d) - k + 1 ELSE 0
          /\ \A i \in 1..(Len(d) - k + 1) : SubSeq(d, k, Len(d))[i] = d[k + i - 1]
      <4> HIDE DEF k
      <4> QED BY <1>1, <1>5, <3>1, SubSeqProperties
    <3> QED BY <1>1, <1>5, <3>2
  <2>3. Len(kept) - start + 1 = Len(d) - k + 1
    BY <1>1, <1>2, <1>3, <1>4
  <2>4. \A i \in 1..(Len(d) - k + 1) : kept[start + i - 1] = d[k + i - 1]
    <3> TAKE i \in 1..(Len(d) - k + 1)
    <3>1. start + i - 1 \in 1..Len(kept) /\ first + (start + i - 1) - 1 = k + i - 1
      BY <1>1, <1>2, <1>3, <1>4
    <3> QED BY <1>3, <3>1
  <2> HIDE DEF k
  <2> QED BY <2>1, <2>2, <2>3, <2>4, SeqEqual
<1> HIDE DEF k
<1>8. /\ k \in 1..(Len(d) + 1) /\ Prune(d) = Suffix(d, k)
      /\ Len(d) - k + 1 <= MaxEntries
      /\ Len(d) <= MaxEntries => \A i \in 1..(k - 1) : d[i].ts < Cutoff
      /\ Len(d) > 0 /\ d[Len(d)].ts >= Cutoff => k <= Len(d)
  BY <1>2, <1>5, <1>6, <1>7 DEF Suffix
<1> QED BY <1>8

\* What is left of a dictionary when a front is taken off.
LEMMA SuffixFacts ==
    ASSUME NEW d, DictOk(d), NEW k \in 1..(Len(d) + 1), NEW s, s = Suffix(d, k)
    PROVE  /\ DictOk(s) /\ Len(s) = Len(d) - k + 1
           /\ \A i \in DOMAIN s : i + k - 1 \in DOMAIN d /\ s[i] = d[i + k - 1]
           /\ \A i \in DOMAIN d : i >= k => d[i] \in ToSet(s)
<1>1. Len(d) \in Nat /\ DOMAIN d = 1..Len(d) /\ \A i \in DOMAIN d : d[i] \in Records
  <2>1. d \in Seq(Records)
    BY DEF DictOk
  <2> QED BY <2>1
<1>2. /\ s \in Seq(Records) /\ Len(s) = Len(d) - k + 1
      /\ \A i \in 1..(Len(d) - k + 1) : s[i] = d[k + i - 1]
  <2>1. \A i \in k..Len(d) : d[i] \in Records
    BY <1>1
  <2>2. /\ SubSeq(d, k, Len(d)) \in Seq(Records)
        /\ Len(SubSeq(d, k, Len(d))) = IF k <= Len(d) THEN Len(d) - k + 1 ELSE 0
        /\ \A i \in 1..(Len(d) - k + 1) : SubSeq(d, k, Len(d))[i] = d[k + i - 1]
    BY <1>1, <2>1, SubSeqProperties
  <2> QED BY <1>1, <2>2 DEF Suffix
<1>3. DOMAIN s = 1..(Len(d) - k + 1)
  BY <1>2
<1>4. \A i \in DOMAIN s : i + k - 1 \in DOMAIN d /\ s[i] = d[i + k - 1]
  <2> TAKE i \in DOMAIN s
  <2>1. i \in 1..(Len(d) - k + 1) /\ i + k - 1 = k + i - 1 /\ i + k - 1 \in 1..Len(d)
    BY <1>1, <1>3
  <2> QED BY <1>1, <1>2, <2>1
<1>5. \A i \in DOMAIN d : i >= k => d[i] \in ToSet(s)
  <2> SUFFICES ASSUME NEW i \in DOMAIN d, i >= k PROVE d[i] \in ToSet(s)
    OBVIOUS
  <2> DEFINE n == i - k + 1
  <2>1. n \in DOMAIN s /\ n + k - 1 = i
    <3>1. i \in 1..Len(d) /\ Len(d) \in Nat /\ k \in Nat
      BY <1>1
    <3>2. n \in 1..(Len(d) - k + 1) /\ n + k - 1 = i
      BY <3>1
    <3> QED BY <1>3, <3>2
  <2>2. s[n] = d[i]
    BY <1>4, <2>1
  <2> QED BY <2>1, <2>2 DEF ToSet
<1>6. \A i, j \in DOMAIN s : s[i].id = s[j].id => i = j
  <2> SUFFICES ASSUME NEW i \in DOMAIN s, NEW j \in DOMAIN s, s[i].id = s[j].id PROVE i = j
    OBVIOUS
  <2>1. i + k - 1 = j + k - 1
    BY <1>4 DEF DictOk
  <2> QED BY <1>1, <1>3, <2>1
<1>7. \A i, j \in DOMAIN s : i < j /\ ~s[j].back => s[i].id < s[j].id
  <2> SUFFICES ASSUME NEW i \in DOMAIN s, NEW j \in DOMAIN s, i < j, ~s[j].back PROVE s[i].id < s[j].id
    OBVIOUS
  <2>1. i + k - 1 < j + k - 1
    BY <1>1, <1>3
  <2> QED BY <1>4, <2>1 DEF DictOk
<1> QED BY <1>2, <1>4, <1>5, <1>6, <1>7 DEF DictOk


\* What comes after a record that never was away is kept as long as the record is.
LEMMA SuffixNewer ==
    ASSUME NEW d, DictOk(d), NEW k \in 1..(Len(d) + 1), NEW s, s = Suffix(d, k),
           NEW x \in ToSet(s), ~x.back, NEW y \in ToSet(d), y.id > x.id
    PROVE  y \in ToSet(s)
<1>1. /\ \A i \in DOMAIN s : i + k - 1 \in DOMAIN d /\ s[i] = d[i + k - 1]
      /\ \A i \in DOMAIN d : i >= k => d[i] \in ToSet(s)
      /\ DictOk(s)
  BY SuffixFacts
<1>2. PICK n \in DOMAIN s : s[n] = x
  BY DEF ToSet
<1>3. PICK j \in DOMAIN d : d[j] = y
  BY DEF ToSet
<1> DEFINE i == n + k - 1
<1>4. i \in DOMAIN d /\ d[i] = x
  BY <1>1, <1>2
<1>5. n \in Nat \ {0} /\ i \in Nat /\ j \in Nat /\ x.id \in Nat /\ y.id \in Nat
  <2>1. s \in Seq(Records) /\ d \in Seq(Records)
    BY <1>1 DEF DictOk
  <2>2. n \in 1..Len(s) /\ i \in 1..Len(d) /\ j \in 1..Len(d) /\ d[i] \in Records /\ d[j] \in Records
    BY <1>2, <1>3, <1>4, <2>1
  <2> QED BY <1>3, <1>4, <2>1, <2>2, RecordFields
<1>6. i >= k
  BY <1>5
<1> HIDE DEF i
<1>7. ~(j < i) /\ j # i
  BY <1>3, <1>4, <1>5 DEF DictOk
<1>8. j >= k
  BY <1>5, <1>6, <1>7
<1> QED BY <1>1, <1>3, <1>8

\* A record is written where it is, or at the end.
LEMMA PutInPlace ==
    ASSUME NEW d, DictOk(d), NEW e \in Records, NEW n \in DOMAIN d, d[n].id = e.id, d[n].back = e.back
    PROVE  /\ DictOk(Put(d, e)) /\ Len(Put(d, e)) = Len(d)
           /\ ToSet(Put(d, e)) = {x \in ToSet(d) : x.id # e.id} \cup {e}
<1> DEFINE p == Put(d, e)
<1>1. Len(d) \in Nat /\ DOMAIN d = 1..Len(d) /\ \A i \in DOMAIN d : d[i] \in Records
  <2>1. d \in Seq(Records)
    BY DEF DictOk
  <2> QED BY <2>1
<1>2. p = [i \in DOMAIN d |-> IF d[i].id = e.id THEN e ELSE d[i]]
  BY DEF Put
<1>3. \A i \in DOMAIN d : d[i].id = e.id <=> i = n
  BY DEF DictOk
<1>4. p = [i \in DOMAIN d |-> IF i = n THEN e ELSE d[i]]
  BY <1>2, <1>3
<1> HIDE DEF p
<1>5. p \in [1..Len(d) -> Records] /\ DOMAIN p = DOMAIN d
  BY <1>1, <1>4
<1>6. p \in Seq(Records) /\ Len(p) = Len(d)
  BY <1>1, <1>5
<1>7. \A i \in DOMAIN d : p[i].id = d[i].id /\ p[i].back = d[i].back
  BY <1>4
<1>8. DictOk(p)
  BY <1>5, <1>6, <1>7 DEF DictOk
<1>9. ToSet(p) = {x \in ToSet(d) : x.id # e.id} \cup {e}
  <2>1. ASSUME NEW x \in ToSet(p) PROVE x = e \/ (x \in ToSet(d) /\ x.id # e.id)
    BY <1>3, <1>4, <1>5 DEF ToSet
  <2>2. e \in ToSet(p)
    BY <1>4, <1>5 DEF ToSet
  <2>3. ASSUME NEW x \in ToSet(d), x.id # e.id PROVE x \in ToSet(p)
    BY <1>3, <1>4, <1>5, <2>3 DEF ToSet
  <2> QED BY <2>1, <2>2, <2>3
<1> QED BY <1>6, <1>8, <1>9 DEF p

\* A new id goes to the end of the dictionary.
LEMMA PutAtEnd ==
    ASSUME NEW d, DictOk(d), NEW e \in Records, \A x \in ToSet(d) : x.id # e.id,
           ~e.back => \A x \in ToSet(d) : x.id < e.id
    PROVE  /\ DictOk(Put(d, e)) /\ Len(Put(d, e)) = Len(d) + 1 /\ Put(d, e)[Len(d) + 1] = e
           /\ ToSet(Put(d, e)) = {x \in ToSet(d) : x.id # e.id} \cup {e}
<1> DEFINE p == Append(d, e)
<1>1. Len(d) \in Nat /\ DOMAIN d = 1..Len(d) /\ d \in Seq(Records)
  BY DEF DictOk
<1>2. \A i \in DOMAIN d : d[i] \in ToSet(d) /\ d[i].id # e.id
  BY DEF ToSet
<1>3. Put(d, e) = p
  BY <1>2 DEF Put
<1>4. /\ p \in Seq(Records) /\ Len(p) = Len(d) + 1
      /\ \A i \in 1..Len(d) : p[i] = d[i]
      /\ p[Len(d) + 1] = e
  BY <1>1, AppendProperties
<1> HIDE DEF p
<1>5. DOMAIN p = 1..(Len(d) + 1)
  BY <1>4
<1>6. \A i \in DOMAIN p : (i \in DOMAIN d /\ p[i] = d[i]) \/ (i = Len(d) + 1 /\ p[i] = e)
  BY <1>1, <1>4, <1>5
<1>7. \A i, j \in DOMAIN p : p[i].id = p[j].id => i = j
  BY <1>2, <1>6 DEF DictOk
<1>8. \A i, j \in DOMAIN p : i < j /\ ~p[j].back => p[i].id < p[j].id
  <2> SUFFICES ASSUME NEW i \in DOMAIN p, NEW j \in DOMAIN p, i < j, ~p[j].back PROVE p[i].id < p[j].id
    OBVIOUS
  <2>1. i \in DOMAIN d /\ p[i] = d[i]
    BY <1>1, <1>5, <1>6
  <2>2. CASE j \in DOMAIN d /\ p[j] = d[j]
    BY <2>1, <2>2 DEF DictOk
  <2>3. CASE p[j] = e
    BY <1>2, <2>1, <2>3
  <2> QED BY <1>6, <2>2, <2>3
<1>9. ToSet(p) = {x \in ToSet(d) : x.id # e.id} \cup {e}
  <2>1. ASSUME NEW x \in ToSet(p) PROVE x = e \/ (x \in ToSet(d) /\ x.id # e.id)
    BY <1>2, <1>6 DEF ToSet
  <2>2. e \in ToSet(p)
    BY <1>1, <1>4, <1>5 DEF ToSet
  <2>3. ASSUME NEW x \in ToSet(d) PROVE x \in ToSet(p)
    BY <1>1, <1>4, <1>5 DEF ToSet
  <2> QED BY <2>1, <2>2, <2>3
<1> QED BY <1>3, <1>4, <1>7, <1>8, <1>9 DEF DictOk

\* What every invariant below says of the dictionary and the clock.
MemoryOk ==
    /\ DictOk(memory) /\ Len(memory) <= MaxEntries
    /\ clock \in 0..MaxClock /\ lastId \in Nat
    /\ \A e \in Held : e.id <= lastId

\* store.add has written record e of request r.
Added(r, eid, state, e) ==
    /\ e.id = eid /\ e.of = r /\ e.state = state
    /\ \/ \E x \in Held : x.id = eid /\ e.ts = x.ts /\ e.back = x.back /\ (e \in Held' \/ e.ts < Cutoff)
       \/ eid \notin IdsOf(Held) /\ e.ts = clock /\ (e.back <=> eid <= lastId) /\ e \in Held'
    /\ DictOk(memory') /\ Len(memory') <= MaxEntries
    /\ \A x \in Held' : x = e \/ (x \in Held /\ x.id # eid)
    /\ \A x \in Held', y \in Held \cup {e} : ~x.back /\ y.id > x.id => y.id \in IdsOf(Held')
    /\ Persist(memory', {x \in Held' : x.id = eid})

\* What store.add leaves in memory: the new record, unless it was there and aged,
\* and the others but for a front of the dictionary.
LEMMA AddFacts ==
    ASSUME MemoryOk, NEW r \in Calls, NEW eid \in Nat \ {0},
           NEW state \in {"in_progress"} \cup Outcomes, Add(r, eid, state),
           \A x \in Held : x.id = eid => x.of = r
    PROVE  \E e \in Records : Added(r, eid, state, e)
<1> DEFINE old == {x \in Held : x.id = eid}
<1>1. PICK e : /\ e = (IF old = {}
                       THEN [id |-> eid, of |-> r, state |-> state, ts |-> clock, back |-> eid <= lastId]
                       ELSE [CHOOSE x \in old : TRUE EXCEPT !.state = state])
               /\ memory' = Prune(Put(memory, e))
               /\ Persist(memory', {x \in Held' : x.id = eid})
  BY DEF Add, Held
<1> DEFINE d == Put(memory, e)
<1>2. /\ e \in Records /\ e.id = eid /\ e.of = r /\ e.state = state
      /\ DictOk(d) /\ ToSet(d) = {x \in Held : x.id # eid} \cup {e}
      /\ \/ \E x \in Held : x.id = eid /\ e.ts = x.ts /\ e.back = x.back /\ Len(d) <= MaxEntries
         \/ /\ eid \notin IdsOf(Held) /\ e.ts = clock /\ (e.back <=> eid <= lastId)
            /\ Len(d) > 0 /\ d[Len(d)] = e
  <2>1. CASE old = {}
    <3>1. e = [id |-> eid, of |-> r, state |-> state, ts |-> clock, back |-> eid <= lastId]
      BY <1>1, <2>1
    <3>2. e \in Records /\ e.id = eid /\ e.of = r /\ e.state = state /\ e.ts = clock /\ (e.back <=> eid <= lastId)
      <4> DEFINE back == eid <= lastId
      <4>1. back \in BOOLEAN /\ (back <=> eid <= lastId)
        BY DEF MemoryOk
      <4>2. e = [id |-> eid, of |-> r, state |-> state, ts |-> clock, back |-> back]
        BY <3>1
      <4> HIDE DEF back
      <4> QED BY <4>1, <4>2 DEF Records, MemoryOk
    <3>3. \A x \in Held : x.id # e.id
      BY <2>1, <3>2
    <3>4. ~e.back => \A x \in Held : x.id < e.id
      <4>1. \A x \in Held : x.id \in Nat /\ x.id <= lastId
        BY RecordFields DEF MemoryOk, DictOk, Held, ToSet
      <4> QED BY <3>2, <4>1 DEF MemoryOk
    <3>5. /\ DictOk(d) /\ Len(d) = Len(memory) + 1 /\ d[Len(memory) + 1] = e
          /\ ToSet(d) = {x \in Held : x.id # e.id} \cup {e}
      <4> HIDE DEF old
      <4> QED BY <3>2, <3>3, <3>4, PutAtEnd DEF MemoryOk, Held
    <3>6. Len(memory) \in Nat /\ eid \notin IdsOf(Held)
      BY <2>1 DEF MemoryOk, DictOk, IdsOf
    <3> HIDE DEF d
    <3> QED BY <3>2, <3>5, <3>6
  <2>2. CASE old # {}
    <3>1. PICK x \in old : e = [x EXCEPT !.state = state]
      BY <1>1, <2>2
    <3>2. x \in Records /\ x \in Held /\ x.id = eid /\ x.of = r
      BY RecordFields DEF MemoryOk, DictOk, Held, ToSet
    <3>3. e \in Records /\ e.id = eid /\ e.of = r /\ e.state = state /\ e.ts = x.ts /\ e.back = x.back
      BY <3>1, <3>2 DEF Records
    <3>4. PICK n \in DOMAIN memory : memory[n] = x
      BY <3>2 DEF Held, ToSet
    <3>5. /\ DictOk(d) /\ Len(d) = Len(memory)
          /\ ToSet(d) = {y \in Held : y.id # e.id} \cup {e}
      BY <3>2, <3>3, <3>4, PutInPlace DEF MemoryOk, Held
    <3> HIDE DEF d
    <3> QED BY <3>2, <3>3, <3>5 DEF MemoryOk
  <2> QED BY <2>1, <2>2
<1> HIDE DEF d
<1>3. PICK k \in 1..(Len(d) + 1) :
              /\ memory' = Suffix(d, k)
              /\ Len(d) - k + 1 <= MaxEntries
              /\ Len(d) <= MaxEntries => \A i \in 1..(k - 1) : d[i].ts < Cutoff
              /\ Len(d) > 0 /\ d[Len(d)].ts >= Cutoff => k <= Len(d)
  <2>1. memory' = Prune(d)
    BY <1>1 DEF d
  <2> QED BY <1>2, <2>1, PruneFacts DEF MemoryOk
<1>4. /\ DictOk(memory') /\ Len(memory') = Len(d) - k + 1
      /\ \A i \in DOMAIN memory' : i + k - 1 \in DOMAIN d /\ memory'[i] = d[i + k - 1]
      /\ \A i \in DOMAIN d : i >= k => d[i] \in ToSet(memory')
  BY <1>2, <1>3, SuffixFacts
<1>5. Held' = ToSet(memory')
  BY DEF Held
<1>6. Len(d) \in Nat /\ DOMAIN d = 1..Len(d)
  BY <1>2 DEF DictOk
<1>7. Held' \subseteq ToSet(d)
  BY <1>4, <1>5 DEF ToSet
<1>8. e \in ToSet(d)
  BY <1>2
<1>9. \/ \E x \in Held : x.id = eid /\ e.ts = x.ts /\ e.back = x.back /\ (e \in Held' \/ e.ts < Cutoff)
      \/ eid \notin IdsOf(Held) /\ e.ts = clock /\ (e.back <=> eid <= lastId) /\ e \in Held'
  <2>1. CASE \E x \in Held : x.id = eid /\ e.ts = x.ts /\ e.back = x.back /\ Len(d) <= MaxEntries
    <3>1. PICK n \in DOMAIN d : d[n] = e
      BY <1>8 DEF ToSet
    <3>2. n >= k \/ n \in 1..(k - 1)
      BY <1>6
    <3>3. e \in Held' \/ e.ts < Cutoff
      BY <1>3, <1>4, <1>5, <2>1, <3>1, <3>2
    <3> QED BY <2>1, <3>3
  <2>2. CASE /\ eid \notin IdsOf(Held) /\ e.ts = clock /\ (e.back <=> eid <= lastId)
             /\ Len(d) > 0 /\ d[Len(d)] = e
    <3>1. clock >= Cutoff
      BY LogAssumption DEF Cutoff, MemoryOk
    <3>2. k <= Len(d) /\ Len(d) \in DOMAIN d
      BY <1>3, <1>6, <2>2, <3>1
    <3>3. e \in Held'
      BY <1>4, <1>5, <1>6, <2>2, <3>2
    <3> QED BY <2>2, <3>3
  <2> QED BY <1>2, <2>1, <2>2
<1>10. \A x \in Held' : x = e \/ (x \in Held /\ x.id # eid)
  BY <1>2, <1>7
<1>11. ASSUME NEW x \in Held', NEW y \in Held \cup {e}, ~x.back, y.id > x.id
       PROVE  y.id \in IdsOf(Held')
  <2>1. PICK z \in ToSet(d) : z.id = y.id
    BY <1>2, <1>8
  <2>2. z \in ToSet(memory')
    BY <1>2, <1>3, <1>5, <1>11, <2>1, SuffixNewer
  <2> QED BY <1>5, <2>1, <2>2 DEF IdsOf
<1>12. Len(memory') <= MaxEntries
  BY <1>3, <1>4
<1> QED BY <1>1, <1>2, <1>4, <1>9, <1>10, <1>11, <1>12 DEF Added

-------------------------------------------------------------------------------
(* RequestLog: the table behind the dictionary. *)

TableOk == table \in SUBSET Records /\ IsFiniteSet(table) /\ IdsApart(table)

\* The records of a dictionary: finitely many, one per id.
LEMMA HeldFacts ==
    ASSUME NEW d, DictOk(d)
    PROVE  ToSet(d) \in SUBSET Records /\ IsFiniteSet(ToSet(d)) /\ IdsApart(ToSet(d))
<1> DEFINE n == Len(d)
           f == [i \in 1..n |-> d[i]]
<1>1. n \in Nat /\ DOMAIN d = 1..n /\ \A i \in 1..n : d[i] \in Records
  <2>1. d \in Seq(Records)
    BY DEF DictOk
  <2> QED BY <2>1
<1>2. f \in Surjection(1..n, ToSet(d))
  BY <1>1 DEF Surjection, ToSet
<1>3. IsFiniteSet(1..n)
  BY <1>1, FS_Interval
<1>4. IsFiniteSet(ToSet(d))
  <2> HIDE DEF f, n
  <2> QED BY <1>2, <1>3, FS_Surjection
<1>5. IdsApart(ToSet(d))
  BY DEF IdsApart, ToSet, DictOk
<1> QED BY <1>1, <1>4, <1>5 DEF ToSet

\* What one write makes of the table: the rows written and the others, trimmed.
LEMMA TrimFacts ==
    ASSUME TableOk, NEW rows \in SUBSET Records, IsFiniteSet(rows), IdsApart(rows)
    PROVE  /\ Replace(rows) \in SUBSET Records /\ IsFiniteSet(Replace(rows)) /\ IdsApart(Replace(rows))
           /\ Trim(Replace(rows)) \in SUBSET Records /\ IsFiniteSet(Trim(Replace(rows)))
           /\ IdsApart(Trim(Replace(rows)))
           /\ \A x \in Trim(Replace(rows)) :
                 x.ts >= Cutoff /\ (x \in rows \/ (x \in table /\ x.id \notin IdsOf(rows)))
<1> DEFINE T == Replace(rows)
<1>1. T \in SUBSET Records /\ \A x \in T : x \in rows \/ (x \in table /\ x.id \notin IdsOf(rows))
  BY DEF Replace, TableOk
<1>2. IdsApart(T)
  BY DEF Replace, TableOk, IdsApart, IdsOf
<1>3. IsFiniteSet(T)
  <2> DEFINE K == {e \in table : e.id \notin IdsOf(rows)}
  <2>1. K \in SUBSET table /\ T = K \cup rows
    BY DEF Replace
  <2>2. IsFiniteSet(K)
    <3> HIDE DEF K
    <3> QED BY <2>1, FS_Subset DEF TableOk
  <2> HIDE DEF K, T
  <2> QED BY <2>1, <2>2, FS_Union
<1> HIDE DEF T
<1>4. Trim(T) \in SUBSET T /\ \A x \in Trim(T) : x.ts >= Cutoff
  BY DEF Trim, Newest
<1>5. IsFiniteSet(Trim(T))
  BY <1>3, <1>4, FS_Subset
<1>6. IdsApart(Trim(T))
  BY <1>2, <1>4 DEF IdsApart
<1> QED BY <1>1, <1>2, <1>3, <1>4, <1>5, <1>6 DEF T

\* _persist: nothing is written, or the entry or all of memory is.
LEMMA PersistFacts ==
    ASSUME TableOk, DictOk(memory'), NEW entry \in SUBSET Held', Persist(memory', entry)
    PROVE  /\ TableOk'
           /\ \/ ~open /\ UNCHANGED <<table, warning, faults>>
              \/ open /\ warning' /\ faults' = faults + 1 /\ table' = table
              \/ /\ open /\ ~warning' /\ faults' = faults
                 /\ \E rows \in SUBSET Held' :
                       /\ entry \subseteq rows
                       /\ warning \/ entry = {} => rows = Held'
                       /\ table' = Trim(Replace(rows))
                       /\ IdsApart(Replace(rows)) /\ Replace(rows) \in SUBSET Records
                       /\ \A x \in table' : x.ts >= Cutoff
                             /\ (x \in rows \/ (x \in table /\ x.id \notin IdsOf(rows)))
<1>1. CASE ~open /\ UNCHANGED <<table, warning, faults>>
  BY <1>1 DEF TableOk
<1>2. CASE open /\ faults' = faults + 1 /\ warning' = TRUE /\ UNCHANGED table
  BY <1>2 DEF TableOk
<1>3. CASE open /\ table' = Trim(Replace(Rows(memory', entry))) /\ warning' = FALSE /\ faults' = faults
  <2> DEFINE rows == Rows(memory', entry)
  <2>1. rows \in SUBSET Held' /\ entry \subseteq rows /\ (warning \/ entry = {} => rows = Held')
    BY DEF Rows, Held
  <2>2. Held' \in SUBSET Records /\ IsFiniteSet(Held') /\ IdsApart(Held')
    BY HeldFacts DEF Held
  <2> HIDE DEF rows
  <2>3. rows \in SUBSET Records /\ IsFiniteSet(rows) /\ IdsApart(rows)
    BY <2>1, <2>2, FS_Subset DEF IdsApart
  <2>4. /\ Replace(rows) \in SUBSET Records /\ IsFiniteSet(Replace(rows)) /\ IdsApart(Replace(rows))
        /\ Trim(Replace(rows)) \in SUBSET Records /\ IsFiniteSet(Trim(Replace(rows)))
        /\ IdsApart(Trim(Replace(rows)))
        /\ \A x \in Trim(Replace(rows)) :
              x.ts >= Cutoff /\ (x \in rows \/ (x \in table /\ x.id \notin IdsOf(rows)))
    BY <2>3, TrimFacts
  <2>5. table' = Trim(Replace(rows))
    BY <1>3 DEF rows
  <2> QED BY <1>3, <2>1, <2>4, <2>5 DEF TableOk
<1> QED BY <1>1, <1>2, <1>3 DEF Persist

\* A young row with a larger id than a record that never was away is in memory, too.
Covered ==
    open => \A e \in Held, x \in table :
        ~e.back /\ x.id > e.id /\ x.ts >= Cutoff => x.id \in IdsOf(Held)

StoreOk ==
    /\ MemoryOk /\ TableOk /\ Covered /\ LogAgrees
    /\ open => \A x \in table : x.id <= lastId

\* Where record e of request r is after store.add, and what became of the others.
Stored(r, eid, state, e) ==
    /\ e.id = eid /\ e.of = r /\ e.state = state
    /\ \A x \in Held' : x = e \/ (x \in Held /\ x.id # eid)
    /\ e \in Held' \/ (e.ts < Cutoff /\ \E x \in Held : x.id = eid /\ e.ts = x.ts)
    /\ \A x \in table' : x \in Held' \/ x \in table
    /\ \/ ~open /\ UNCHANGED <<table, warning, faults>>
       \/ open /\ warning' /\ faults' = faults + 1 /\ table' = table
       \/ /\ open /\ ~warning' /\ faults' = faults
          /\ \A x \in table' : \/ x \in Held'
                               \/ x \in table /\ x.ts >= Cutoff /\ (e \in Held' => x.id # eid)

\* store.add keeps memory and table in order, and says what became of the record.
LEMMA AddStore ==
    ASSUME StoreOk, NEW r \in Calls, NEW eid \in Nat \ {0},
           NEW state \in {"in_progress"} \cup Outcomes, Add(r, eid, state),
           \A x \in Held : x.id = eid => x.of = r,
           lastId' \in {lastId, lastId + 1}, eid <= lastId', clock' = clock, open' = open
    PROVE  /\ StoreOk'
           /\ \E e \in Records : Stored(r, eid, state, e)
<1>0. MemoryOk
  BY DEF StoreOk
<1>a. PICK e \in Records : Added(r, eid, state, e)
  BY <1>0, AddFacts
<1>1. /\ e.id = eid /\ e.of = r /\ e.state = state
      /\ \/ \E x \in Held : x.id = eid /\ e.ts = x.ts /\ e.back = x.back /\ (e \in Held' \/ e.ts < Cutoff)
         \/ eid \notin IdsOf(Held) /\ e.ts = clock /\ (e.back <=> eid <= lastId) /\ e \in Held'
      /\ DictOk(memory') /\ Len(memory') <= MaxEntries
      /\ \A x \in Held' : x = e \/ (x \in Held /\ x.id # eid)
      /\ \A x \in Held', y \in Held \cup {e} : ~x.back /\ y.id > x.id => y.id \in IdsOf(Held')
      /\ Persist(memory', {x \in Held' : x.id = eid})
  BY <1>a DEF Added
<1> DEFINE entry == {x \in Held' : x.id = eid}
<1>2. entry = IF e \in Held' THEN {e} ELSE {}
  BY <1>1
<1>3. /\ TableOk'
      /\ \/ ~open /\ UNCHANGED <<table, warning, faults>>
         \/ open /\ warning' /\ faults' = faults + 1 /\ table' = table
         \/ /\ open /\ ~warning' /\ faults' = faults
            /\ \E rows \in SUBSET Held' :
                       /\ entry \subseteq rows
                       /\ warning \/ entry = {} => rows = Held'
                       /\ table' = Trim(Replace(rows))
                       /\ IdsApart(Replace(rows)) /\ Replace(rows) \in SUBSET Records
                       /\ \A x \in table' : x.ts >= Cutoff
                             /\ (x \in rows \/ (x \in table /\ x.id \notin IdsOf(rows)))
  <2>1. entry \in SUBSET Held' /\ TableOk /\ DictOk(memory') /\ Persist(memory', entry)
    BY <1>1 DEF StoreOk
  <2> HIDE DEF entry
  <2> QED BY <2>1, PersistFacts
<1>4. \A x \in Held' : x \in Records /\ x.id \in Nat
  <2>1. Held' \in SUBSET Records
    BY <1>1, HeldFacts DEF Held
  <2> QED BY <2>1, RecordFields
<1>5. MemoryOk'
  <2>1. \A x \in Held' : x.id <= lastId'
    BY <1>1, <1>4 DEF StoreOk, MemoryOk
  <2> QED BY <1>1, <2>1 DEF StoreOk, MemoryOk
<1>6. \A x \in table' : x \in Held' \/ x \in table
  BY <1>3
<1>7. open' => \A x \in table' : x.id <= lastId'
  <2> SUFFICES ASSUME open, NEW x \in table' PROVE x.id <= lastId'
    OBVIOUS
  <2>1. CASE x \in Held'
    BY <1>5, <2>1 DEF MemoryOk
  <2>2. CASE x \in table
    <3>1. x.id \in Nat /\ x.id <= lastId /\ lastId \in Nat
      BY <2>2, RecordFields DEF StoreOk, TableOk, MemoryOk
    <3> QED BY <3>1
  <2> QED BY <1>6, <2>1, <2>2
\* Covered holds for the new memory and every old or new row.
<1>8. ASSUME open, NEW x \in Held', NEW y \in table \cup Held', ~x.back, y.id > x.id, y.ts >= Cutoff
      PROVE  y.id \in IdsOf(Held')
  <2>1. CASE y \in Held'
    BY <2>1 DEF IdsOf
  <2>2. CASE y \in table /\ x # e
    <3>1. x \in Held
      BY <1>1, <2>2
    <3>2. y.id \in IdsOf(Held)
      BY <1>8, <2>2, <3>1 DEF StoreOk, Covered
    <3>3. PICK z \in Held : z.id = y.id
      BY <3>2 DEF IdsOf
    <3> QED BY <1>1, <1>8, <3>3
  <2>3. CASE y \in table /\ x = e
    <3>1. y.id <= lastId /\ y.id \in Nat /\ lastId \in Nat
      BY <1>8, <2>3, RecordFields DEF StoreOk, TableOk, MemoryOk
    <3>2. eid <= lastId
      BY <1>1, <1>8, <2>3, <3>1
    <3>3. \E z \in Held : z.id = eid /\ e.back = z.back
      BY <1>1, <1>8, <2>3, <3>2
    <3>4. y.id \in IdsOf(Held)
      BY <1>1, <1>8, <2>3, <3>3 DEF StoreOk, Covered
    <3>5. PICK z \in Held : z.id = y.id
      BY <3>4 DEF IdsOf
    <3> QED BY <1>1, <1>8, <2>3, <3>5
  <2> QED BY <2>1, <2>2, <2>3
<1>9. Cutoff' = Cutoff
  BY DEF Cutoff
<1>10. Covered'
  BY <1>6, <1>8, <1>9 DEF Covered
<1>11. LogAgrees'
  <2> SUFFICES ASSUME open, ~warning', NEW x \in Held', ~x.back, ~(x.ts < Cutoff) PROVE x \in table'
    BY <1>9 DEF LogAgrees
  <2>1. x.ts >= Cutoff
    <3>1. x.ts \in Int /\ Cutoff \in Int
      BY <1>4, RecordFields, LogAssumption DEF Cutoff, StoreOk, MemoryOk
    <3> QED BY <3>1
  <2>2. PICK rows \in SUBSET Held' :
                       /\ entry \subseteq rows
                       /\ warning \/ entry = {} => rows = Held'
                       /\ table' = Trim(Replace(rows))
                       /\ IdsApart(Replace(rows)) /\ Replace(rows) \in SUBSET Records
    BY <1>3
  <2>3. x \in Replace(rows)
    <3>1. CASE x \in rows
      BY <3>1 DEF Replace
    <3>2. CASE x \notin rows
      <4>1. ~warning /\ e \in Held' /\ x # e /\ x \in Held /\ x.id # eid
        BY <1>1, <1>2, <2>2, <3>2
      <4>2. x \in table
        BY <4>1 DEF StoreOk, LogAgrees
      <4>3. x.id \notin IdsOf(rows)
        <5>1. IdsApart(Held')
          BY <1>1, HeldFacts DEF Held
        <5> QED BY <3>2, <5>1 DEF IdsOf, IdsApart
      <4> QED BY <4>2, <4>3 DEF Replace
    <3> QED BY <3>1, <3>2
  <2>4. \A y \in Replace(rows) : y.ts >= Cutoff /\ y.id > x.id => y.id \in IdsOf(Held')
    BY <1>8, <2>2 DEF Replace
  <2>5. x.id \in IdsOf(Held')
    BY DEF IdsOf
  <2>6. PICK d : d = memory'
    OBVIOUS
  <2>7. /\ d \in Seq(Records) /\ Len(d) <= MaxEntries /\ x.id \in IdsOf(ToSet(d))
        /\ \A y \in Replace(rows) : y.ts >= Cutoff /\ y.id > x.id => y.id \in IdsOf(ToSet(d))
    BY <1>1, <2>4, <2>5, <2>6 DEF Held, DictOk
  <2>8. x \in Trim(Replace(rows))
    BY <2>1, <2>2, <2>3, <2>7, TrimKeeps
  <2> QED BY <2>2, <2>8
<1>12. e \in Held' \/ (e.ts < Cutoff /\ \E x \in Held : x.id = eid /\ e.ts = x.ts)
  BY <1>1
<1>13. \/ ~open /\ UNCHANGED <<table, warning, faults>>
       \/ open /\ warning' /\ faults' = faults + 1 /\ table' = table
       \/ /\ open /\ ~warning' /\ faults' = faults
          /\ \A x \in table' : \/ x \in Held'
                               \/ x \in table /\ x.ts >= Cutoff /\ (e \in Held' => x.id # eid)
  <2>1. ASSUME NEW rows \in SUBSET Held', entry \subseteq rows, e \in Held' PROVE eid \in IdsOf(rows)
    BY <1>1, <1>2, <2>1 DEF IdsOf
  <2> QED BY <1>3, <2>1
<1>14. Stored(r, eid, state, e)
  BY <1>1, <1>6, <1>12, <1>13 DEF Stored
<1> QED BY <1>3, <1>5, <1>7, <1>10, <1>11, <1>14 DEF StoreOk

-------------------------------------------------------------------------------
(* RequestLog: what the records say of their requests. *)

\* A running request holds the id of its records and no other request's, and nothing
\* is recorded of a request that has not arrived.
RequestsOk ==
    /\ request \in [Calls -> [phase : Phases, eid : Nat]]
    /\ \A r \in Calls : request[r].phase = "running" =>
          /\ request[r].eid \in 1..lastId
          /\ \A e \in Held : e.id = request[r].eid <=> e.of = r
          /\ \A q \in Calls \ {r} : request[q].phase = "running" => request[q].eid # request[r].eid
    /\ \A e \in Held \cup table : request[e.of].phase # "none"

\* What a row may say when every write of the process so far went through.
RowKept(x) ==
    /\ request[x.of].phase = "running" => x.state = "in_progress"
    /\ request[x.of].phase = "lost" => x.state \in {"in_progress", "interrupted"}
    /\ request[x.of].phase \in Outcomes => x.state = request[x.of].phase

\* Until a write fails the table agrees with memory and with the requests.
FaultlessOk ==
    /\ faults \in Nat
    /\ faults = 0 =>
         /\ open /\ ~warning
         /\ \A e \in Held, x \in table : x.id = e.id => x = e
         /\ \A r \in Calls : request[r].phase = "running" =>
               \A x \in table : x.id = request[r].eid <=> x.of = r
         /\ \A x \in table : RowKept(x)

LogInv == StoreOk /\ RequestsOk /\ FaultlessOk /\ OutcomeKept

\* What a record shown must say.
Shown(phase, state) ==
    /\ phase = "running" => state = "in_progress"
    /\ phase = "lost" => state = "interrupted"
    /\ phase \in Outcomes => state = phase
    /\ phase \notin {"running", "lost"} \cup Outcomes => state # "in_progress"

\* OutcomeKept, before and after a step, record by record.
LEMMA OutcomeIsShown ==
    /\ OutcomeKept <=> \A e \in Held : Shown(request[e.of].phase, e.state)
    /\ OutcomeKept' <=> \A e \in Held' : Shown(request'[e.of].phase, e.state)
<1>1. \A phase, state : (CASE phase = "running" -> state = "in_progress"
                           [] phase = "lost" -> state = "interrupted"
                           [] phase \in Outcomes -> state = phase
                           [] OTHER -> state # "in_progress") <=> Shown(phase, state)
  BY DEF Shown, Outcomes
<1> QED BY <1>1 DEF OutcomeKept

\* A request's own record is written: the bookkeeping of all requests stays right.
LEMMA AddRequests ==
    ASSUME LogInv, StoreOk', NEW r \in Calls, NEW eid \in Nat \ {0}, NEW state, NEW e \in Records,
           Stored(r, eid, state, e), NEW phase \in {"running"} \cup Outcomes,
           \/ phase = "running" /\ state = "in_progress"
           \/ phase \in Outcomes /\ state = phase,
           \/ request[r].phase = "running" /\ request[r].eid = eid /\ lastId' = lastId
           \/ request[r].phase = "none" /\ eid = lastId + 1 /\ lastId' = lastId + 1,
           request' \in [Calls -> [phase : Phases, eid : Nat]],
           request'[r].phase = phase, request'[r].eid = eid,
           \A q \in Calls \ {r} : request'[q] = request[q],
           open' = open, clock' = clock
    PROVE  LogInv'
<1>1. /\ e.id = eid /\ e.of = r /\ e.state = state
      /\ \A x \in Held' : x = e \/ (x \in Held /\ x.id # eid)
      /\ \A x \in table' : x \in Held' \/ x \in table
  BY DEF Stored
<1>2. /\ \A x \in Held : x \in Records /\ x.id \in Nat /\ x.id <= lastId /\ x.of \in Calls
      /\ \A x \in table : x \in Records /\ x.id \in Nat /\ x.of \in Calls /\ (open => x.id <= lastId)
      /\ lastId \in Nat
  <2>1. Held \in SUBSET Records /\ table \in SUBSET Records
    BY HeldFacts DEF LogInv, StoreOk, MemoryOk, TableOk, Held
  <2> QED BY <2>1, RecordFields DEF LogInv, StoreOk, MemoryOk
\* Of r's own records only the one with this id is in memory.
<1>3. \A x \in Held : x.id # eid => x.of # r
  BY <1>2 DEF LogInv, RequestsOk
<1>4. \A x \in Held' : x = e \/ (x \in Held /\ x.of # r)
  BY <1>1, <1>3
<1>5. \A q \in Calls \ {r} : request[q].phase = "running" => request[q].eid # eid /\ request[q].eid \in 1..lastId
  BY <1>2 DEF LogInv, RequestsOk
<1>6. lastId' >= lastId /\ eid \in 1..lastId' /\ lastId' \in Nat
  BY <1>2 DEF LogInv, RequestsOk
<1>7. RequestsOk'
  <2>1. ASSUME NEW q \in Calls, request'[q].phase = "running"
        PROVE  /\ request'[q].eid \in 1..lastId'
               /\ \A x \in Held' : x.id = request'[q].eid <=> x.of = q
    <3>1. CASE q = r
      BY <1>1, <1>4, <1>6, <3>1
    <3>2. CASE q # r
      <4>1. request'[q] = request[q] /\ request[q].phase = "running"
        BY <2>1, <3>2
      <4>2. request[q].eid \in 1..lastId' /\ request[q].eid # eid
        BY <1>2, <1>5, <1>6, <3>2, <4>1
      <4>3. \A x \in Held : x.id = request[q].eid <=> x.of = q
        BY <4>1 DEF LogInv, RequestsOk
      <4> QED BY <1>1, <1>4, <3>2, <4>1, <4>2, <4>3
    <3> QED BY <3>1, <3>2
  <2>2. ASSUME NEW q \in Calls, NEW p \in Calls \ {q}, request'[q].phase = "running", request'[p].phase = "running"
        PROVE  request'[p].eid # request'[q].eid
    <3>1. CASE q # r /\ p # r
      BY <2>2, <3>1 DEF LogInv, RequestsOk
    <3>2. CASE q = r \/ p = r
      BY <1>5, <2>2, <3>2
    <3> QED BY <3>1, <3>2
  <2>3. ASSUME NEW x \in Held' \cup table' PROVE request'[x.of].phase # "none"
    <3>1. CASE x = e
      BY <1>1, <3>1 DEF Outcomes
    <3>2. CASE x \in Held \cup table
      <4>1. request[x.of].phase # "none" /\ x.of \in Calls
        BY <1>2, <3>2 DEF LogInv, RequestsOk
      <4> QED BY <4>1 DEF Outcomes
    <3> QED BY <1>1, <1>4, <3>1, <3>2
  <2> QED BY <2>1, <2>2, <2>3 DEF RequestsOk
<1>8. \A x \in Held' : Shown(request'[x.of].phase, x.state)
  <2> TAKE x \in Held'
  <2>1. CASE x = e
    BY <1>1, <2>1 DEF Shown, Outcomes
  <2>2. CASE x \in Held /\ x.of # r
    <3>1. Shown(request[x.of].phase, x.state) /\ request'[x.of] = request[x.of]
      BY <1>2, <2>2, OutcomeIsShown DEF LogInv
    <3> QED BY <3>1
  <2> QED BY <1>4, <2>1, <2>2
<1>9. OutcomeKept'
  BY <1>8, OutcomeIsShown
<1>10. FaultlessOk'
  <2>1. faults' \in Nat
    BY DEF Stored, LogInv, FaultlessOk
  <2> SUFFICES ASSUME faults' = 0
               PROVE  /\ open' /\ ~warning'
                      /\ \A h \in Held', x \in table' : x.id = h.id => x = h
                      /\ \A q \in Calls : request'[q].phase = "running" =>
                            \A x \in table' : x.id = request'[q].eid <=> x.of = q
                      /\ \A x \in table' : RowKept(x)'
    BY <2>1 DEF FaultlessOk
  <2>2. faults = 0 /\ open /\ ~warning
    BY DEF Stored, LogInv, FaultlessOk
  <2>3. /\ \A h \in Held, x \in table : x.id = h.id => x = h
        /\ \A q \in Calls : request[q].phase = "running" => \A x \in table : x.id = request[q].eid <=> x.of = q
        /\ \A x \in table : RowKept(x)
    BY <2>2 DEF LogInv, FaultlessOk
  <2>4. /\ ~warning'
        /\ \A x \in table' : \/ x \in Held'
                             \/ x \in table /\ x.ts >= Cutoff /\ (e \in Held' => x.id # eid)
    BY <2>2 DEF Stored
  <2>5. \A h, x \in Held' : x.id = h.id => x = h
    <3>1. DictOk(memory')
      BY DEF StoreOk, MemoryOk
    <3> QED BY <3>1, HeldFacts DEF IdsApart, Held
  <2>6. \A h \in Held', x \in table' : x.id = h.id => x = h
    <3> SUFFICES ASSUME NEW h \in Held', NEW x \in table', x.id = h.id PROVE x = h
      OBVIOUS
    <3>1. CASE x \in Held'
      BY <2>5, <3>1
    <3>2. CASE x \in table /\ (e \in Held' => x.id # eid)
      BY <1>1, <2>3, <3>2
    <3> QED BY <2>4, <3>1, <3>2
\* An old row of r is gone with its aged record, or is r's row under this id.
  <2>7. \A x \in table' : x \in Held' \/ (x \in table /\ x.id # eid /\ x.of # r)
    <3> TAKE x \in table'
    <3>1. CASE x \in Held'
      BY <3>1
    <3>2. CASE x \in table /\ x.ts >= Cutoff /\ (e \in Held' => x.id # eid)
      <4>1. x.id # eid
        <5>1. CASE e \in Held'
          BY <3>2, <5>1
        <5>2. CASE e.ts < Cutoff /\ \E h \in Held : h.id = eid /\ e.ts = h.ts
          <6>1. ASSUME x.id = eid PROVE FALSE
            <7>1. x.ts = e.ts
              BY <2>3, <3>2, <5>2, <6>1
            <7>2. x.ts \in Int /\ Cutoff \in Int
              BY <1>2, <3>2, RecordFields, LogAssumption DEF Cutoff, LogInv, StoreOk, MemoryOk
            <7> QED BY <3>2, <5>2, <7>1, <7>2
          <6> QED BY <6>1
        <5> QED BY <5>1, <5>2 DEF Stored
      <4>2. x.of # r
        <5>1. CASE request[r].phase = "running" /\ request[r].eid = eid
          BY <2>3, <3>2, <4>1, <5>1
        <5>2. CASE request[r].phase = "none"
          BY <3>2, <5>2 DEF LogInv, RequestsOk
        <5> QED BY <5>1, <5>2
      <4> QED BY <3>2, <4>1, <4>2
    <3> QED BY <2>4, <3>1, <3>2
  <2>8. ASSUME NEW q \in Calls, request'[q].phase = "running", NEW x \in table'
        PROVE  x.id = request'[q].eid <=> x.of = q
    <3>1. CASE x \in Held'
      BY <1>7, <2>8, <3>1 DEF RequestsOk
    <3>2. CASE x \in table /\ x.id # eid /\ x.of # r
      BY <2>3, <2>8, <3>2
    <3> QED BY <2>7, <3>1, <3>2
  <2>9. ASSUME NEW x \in table' PROVE RowKept(x)'
    <3>1. CASE x \in Held'
      <4>1. Shown(request'[x.of].phase, x.state)
        BY <1>8, <3>1
      <4> QED BY <4>1 DEF Shown, RowKept
    <3>2. CASE x \in table /\ x.id # eid /\ x.of # r
      <4>1. RowKept(x) /\ request'[x.of] = request[x.of]
        BY <1>2, <2>3, <3>2
      <4> QED BY <4>1 DEF RowKept
    <3> QED BY <2>7, <3>1, <3>2
  <2> QED BY <2>2, <2>4, <2>6, <2>8, <2>9
<1> QED BY <1>7, <1>9, <1>10 DEF LogInv

-------------------------------------------------------------------------------
(* RequestLog: the steps. *)

\* A request that arrives keeps the invariant.
LEMMA ArriveInv ==
    ASSUME LogInv, NEW r \in Calls, Arrive(r)
    PROVE  LogInv'
<1> DEFINE eid == lastId + 1
<1>1. /\ request[r].phase = "none" /\ lastId' = eid /\ Add(r, eid, "in_progress")
      /\ request' = [request EXCEPT ![r] = [phase |-> "running", eid |-> eid]]
      /\ open' = open /\ clock' = clock
  BY DEF Arrive
<1>2. lastId \in Nat /\ eid \in Nat \ {0} /\ StoreOk
  BY DEF LogInv, StoreOk, MemoryOk
<1>3. \A x \in Held : x.id # eid
  <2>1. \A x \in Held : x.id \in Nat /\ x.id <= lastId
    BY HeldFacts, RecordFields DEF LogInv, StoreOk, MemoryOk, Held
  <2> QED BY <1>2, <2>1
<1> HIDE DEF eid
<1>4. StoreOk' /\ \E e \in Records : Stored(r, eid, "in_progress", e)
  <2>1. lastId' \in {lastId, lastId + 1} /\ eid <= lastId'
    BY <1>1, <1>2 DEF eid
  <2> QED BY <1>1, <1>2, <1>3, <2>1, AddStore
<1>5. PICK e \in Records : Stored(r, eid, "in_progress", e)
  BY <1>4
<1>6. /\ request' \in [Calls -> [phase : Phases, eid : Nat]]
      /\ request'[r].phase = "running" /\ request'[r].eid = eid
      /\ \A q \in Calls \ {r} : request'[q] = request[q]
  <2>1. request \in [Calls -> [phase : Phases, eid : Nat]]
    BY DEF LogInv, RequestsOk
  <2>2. [phase |-> "running", eid |-> eid] \in [phase : Phases, eid : Nat]
    BY <1>2 DEF Phases
  <2> QED BY <1>1, <2>1, <2>2
<1>7. eid = lastId + 1 /\ lastId' = lastId + 1
  BY <1>1 DEF eid
<1> QED BY <1>1, <1>2, <1>4, <1>5, <1>6, <1>7, AddRequests

\* The record of a running request is its own.
LEMMA OwnRecord ==
    ASSUME LogInv, NEW r \in Calls, request[r].phase = "running"
    PROVE  /\ request[r].eid \in Nat \ {0} /\ request[r].eid <= lastId /\ StoreOk
           /\ \A x \in Held : x.id = request[r].eid => x.of = r
           /\ request \in [Calls -> [phase : Phases, eid : Nat]]
  BY DEF LogInv, RequestsOk, StoreOk, MemoryOk

\* Writing a running request's record again keeps the invariant.
LEMMA BodyReadInv ==
    ASSUME LogInv, NEW r \in Calls, BodyRead(r)
    PROVE  LogInv'
<1>1. PICK eid : eid = request[r].eid
  OBVIOUS
<1>2. /\ request[r].phase = "running" /\ Add(r, eid, "in_progress")
      /\ lastId' = lastId /\ request' = request /\ open' = open /\ clock' = clock
  BY <1>1 DEF BodyRead
<1>3. /\ eid \in Nat \ {0} /\ eid <= lastId /\ StoreOk /\ \A x \in Held : x.id = eid => x.of = r
      /\ request' \in [Calls -> [phase : Phases, eid : Nat]]
  BY <1>1, <1>2, OwnRecord
<1>4. StoreOk' /\ \E e \in Records : Stored(r, eid, "in_progress", e)
  BY <1>2, <1>3, AddStore
<1>5. PICK e \in Records : Stored(r, eid, "in_progress", e)
  BY <1>4
<1> QED BY <1>1, <1>2, <1>3, <1>4, <1>5, AddRequests

\* Writing how a request ended keeps the invariant.
LEMMA EndInv ==
    ASSUME LogInv, NEW r \in Calls, NEW outcome \in Outcomes, End(r, outcome)
    PROVE  LogInv'
<1>1. PICK eid : eid = request[r].eid
  OBVIOUS
<1>2. /\ request[r].phase = "running" /\ Add(r, eid, outcome)
      /\ lastId' = lastId /\ request' = [request EXCEPT ![r].phase = outcome]
      /\ open' = open /\ clock' = clock
  BY <1>1 DEF End
<1>3. /\ eid \in Nat \ {0} /\ eid <= lastId /\ StoreOk /\ \A x \in Held : x.id = eid => x.of = r
      /\ request \in [Calls -> [phase : Phases, eid : Nat]]
  BY <1>1, <1>2, OwnRecord
<1>4. StoreOk' /\ \E e \in Records : Stored(r, eid, outcome, e)
  BY <1>2, <1>3, AddStore
<1>5. PICK e \in Records : Stored(r, eid, outcome, e)
  BY <1>4
<1>6. /\ request' \in [Calls -> [phase : Phases, eid : Nat]]
      /\ request'[r].phase = outcome /\ request'[r].eid = eid
      /\ \A q \in Calls \ {r} : request'[q] = request[q]
  BY <1>1, <1>2, <1>3 DEF Phases
<1>7. PICK phase \in {"running"} \cup Outcomes : phase = outcome
  OBVIOUS
<1>8. request'[r].phase = phase /\ phase \in Outcomes /\ Stored(r, eid, phase, e) /\ eid \in Nat \ {0}
  BY <1>3, <1>5, <1>6, <1>7
<1>9. request[r].phase = "running" /\ request[r].eid = eid /\ lastId' = lastId
  BY <1>1, <1>2
<1> QED BY <1>2, <1>4, <1>6, <1>8, <1>9, AddRequests

\* The empty dictionary is in order.
LEMMA EmptyDict == DictOk(<<>>) /\ ToSet(<<>>) = {} /\ Len(<<>>) = 0
  BY DEF DictOk, ToSet

\* The empty table is in order.
LEMMA EmptyRows == {} \in SUBSET Records /\ IsFiniteSet({}) /\ IdsApart({})
  BY FS_EmptySet DEF IdsApart

\* Clearing keeps the invariant, whether the rows went or stayed.
LEMMA ClearInv ==
    ASSUME LogInv, Clear
    PROVE  LogInv'
<1>1. /\ memory' = <<>> /\ UNCHANGED <<open, warning, lastId, request, clock>>
      /\ \/ table' = table /\ faults' = faults
         \/ table' = {} /\ faults' = faults
         \/ table' = table /\ faults' = faults + 1
  BY DEF Clear
<1>2. Held' = {} /\ DictOk(memory') /\ Len(memory') <= MaxEntries
  BY <1>1, EmptyDict, LogAssumption DEF Held
<1>3. TableOk' /\ \A x \in table' : x \in table
  BY <1>1, EmptyRows DEF LogInv, StoreOk, TableOk
<1>4. StoreOk'
  BY <1>1, <1>2, <1>3 DEF LogInv, StoreOk, MemoryOk, Covered, LogAgrees
<1>5. RequestsOk'
  BY <1>1, <1>2, <1>3 DEF LogInv, RequestsOk
<1>6. FaultlessOk'
  <2>1. faults' \in Nat /\ (faults' = 0 => faults = 0)
    BY <1>1 DEF LogInv, FaultlessOk
  <2>2. \A x : RowKept(x) => RowKept(x)'
    BY <1>1 DEF RowKept
  <2> QED BY <1>1, <1>2, <1>3, <2>1, <2>2 DEF LogInv, FaultlessOk
<1>7. OutcomeKept'
  BY <1>2, OutcomeIsShown
<1> QED BY <1>4, <1>5, <1>6, <1>7 DEF LogInv

\* The passing of time keeps the invariant.
LEMMA TickInv ==
    ASSUME LogInv, Tick
    PROVE  LogInv'
<1>1. /\ clock' = clock + 1 /\ clock < MaxClock
      /\ UNCHANGED <<memory, table, open, warning, lastId, request, faults>>
  BY DEF Tick
<1>2. clock \in 0..MaxClock /\ clock' \in 0..MaxClock /\ Cutoff' = Cutoff + 1 /\ Cutoff \in Int
  BY <1>1, LogAssumption DEF LogInv, StoreOk, MemoryOk, Cutoff
<1>3. Held' = Held
  BY <1>1 DEF Held
<1>4. \A x \in Held \cup table : x.ts \in Int
  <2>1. Held \in SUBSET Records /\ table \in SUBSET Records
    BY HeldFacts DEF LogInv, StoreOk, MemoryOk, TableOk, Held
  <2> QED BY <2>1, RecordFields, LogAssumption
<1>5. Covered' /\ LogAgrees'
  <2>1. \A x \in Held \cup table : (x.ts >= Cutoff' => x.ts >= Cutoff) /\ (x.ts < Cutoff => x.ts < Cutoff')
    BY <1>2, <1>4
  <2> QED BY <1>1, <1>3, <2>1 DEF LogInv, StoreOk, Covered, LogAgrees
<1>6. MemoryOk' /\ TableOk'
  BY <1>1, <1>2, <1>3 DEF LogInv, StoreOk, MemoryOk, TableOk
<1>7. StoreOk'
  BY <1>1, <1>5, <1>6 DEF LogInv, StoreOk
<1>8. RequestsOk' /\ OutcomeKept'
  BY <1>1, <1>3, OutcomeIsShown DEF LogInv, RequestsOk
<1>9. FaultlessOk'
  BY <1>1, <1>3 DEF LogInv, FaultlessOk, RowKept
<1> QED BY <1>7, <1>8, <1>9 DEF LogInv

-------------------------------------------------------------------------------
(* RequestLog: a restart. *)

\* Loading a row changes its state at most, and no loaded row is in progress.
LEMMA LoadedFacts ==
    ASSUME NEW x \in Records, NEW e, e = Loaded(x)
    PROVE  /\ e \in Records /\ e.id = x.id /\ e.of = x.of /\ e.ts = x.ts /\ e.back = x.back
           /\ e.state # "in_progress"
           /\ e.state = x.state \/ (x.state = "in_progress" /\ e.state = "interrupted")
<1>1. CASE x.state = "in_progress"
  <2>1. e = [x EXCEPT !.state = "interrupted"]
    BY <1>1 DEF Loaded
  <2>2. e \in Records /\ e.id = x.id /\ e.of = x.of /\ e.ts = x.ts /\ e.back = x.back /\ e.state = "interrupted"
    BY <2>1 DEF Records, Outcomes
  <2> QED BY <1>1, <2>2
<1>2. CASE x.state # "in_progress"
  BY <1>2 DEF Loaded
<1> QED BY <1>1, <1>2

\* A dictionary built in the order of the ids holds just those records.
LEMMA OrderedFacts ==
    ASSUME NEW L \in SUBSET Records, IsFiniteSet(L), NEW d \in InIdOrder(L)
    PROVE  DictOk(d) /\ ToSet(d) = L /\ Len(d) = Cardinality(L)
<1> DEFINE n == Cardinality(L)
<1>1. n \in Nat
  BY FS_CardinalityType
<1>2. d \in [1..n -> L] /\ ToSet(d) = L /\ \A i, j \in DOMAIN d : i < j => d[i].id < d[j].id
  BY DEF InIdOrder
<1> HIDE DEF n
<1>3. DOMAIN d = 1..n /\ \A i \in 1..n : d[i] \in Records /\ d[i].id \in Nat
  <2>1. DOMAIN d = 1..n /\ \A i \in 1..n : d[i] \in Records
    BY <1>2
  <2> QED BY <2>1, RecordFields
<1>4. d \in Seq(Records) /\ Len(d) = n
  <2>1. d \in [1..n -> Records]
    BY <1>2
  <2> QED BY <1>1, <2>1
<1>5. \A i, j \in DOMAIN d : d[i].id = d[j].id => i = j
  <2> SUFFICES ASSUME NEW i \in DOMAIN d, NEW j \in DOMAIN d, d[i].id = d[j].id, i # j PROVE FALSE
    OBVIOUS
  <2>1. i < j \/ j < i
    BY <1>1, <1>3
  <2>2. d[i].id < d[j].id \/ d[j].id < d[i].id
    BY <1>2, <2>1
  <2> QED BY <1>3, <2>2
<1> QED BY <1>2, <1>4, <1>5 DEF DictOk, n

\* The rows a new process reads, and what it makes of them.
Read == Newest({e \in table : e.ts >= Cutoff}, MaxEntries)
Reloaded == {Loaded(e) : e \in Read}

\* What is reloaded: young rows, one per id, no more than memory may hold.
LEMMA ReloadedFacts ==
    ASSUME TableOk, clock \in 0..MaxClock
    PROVE  /\ Reloaded \in SUBSET Records /\ IsFiniteSet(Reloaded) /\ IdsApart(Reloaded)
           /\ Cardinality(Reloaded) <= MaxEntries
           /\ \A e \in Reloaded : \E x \in table :
                 /\ e.id = x.id /\ e.of = x.of /\ e.ts = x.ts /\ e.back = x.back /\ e.ts >= Cutoff
                 /\ e.state # "in_progress"
                 /\ e.state = x.state \/ (x.state = "in_progress" /\ e.state = "interrupted")
           /\ \A e \in Reloaded, x \in table :
                 x.id > e.id /\ x.ts >= Cutoff => x.id \in IdsOf(Reloaded)
<1> DEFINE young == {e \in table : e.ts >= Cutoff}
<1>1. young \in SUBSET Records /\ IsFiniteSet(young) /\ IdsApart(young) /\ young \in SUBSET table
      /\ \A x \in young : x.ts >= Cutoff
  <2>1. young \in SUBSET table
    OBVIOUS
  <2>2. IsFiniteSet(young)
    <3> HIDE DEF young
    <3> QED BY <2>1, FS_Subset DEF TableOk
  <2> QED BY <2>1, <2>2 DEF TableOk, IdsApart
<1>2. Read = Newest(young, MaxEntries)
  BY DEF Read
<1> HIDE DEF young
<1>3. MaxEntries \in Nat \ {0}
  BY LogAssumption
<1>4. /\ IsFiniteSet(Read) /\ Cardinality(Read) \in Nat /\ Cardinality(Read) <= MaxEntries
      /\ Read \in SUBSET young
  <2>1. Read \in SUBSET young
    BY <1>2 DEF Newest
  <2> QED BY <1>1, <1>2, <1>3, <2>1, NewestSize
<1>5. \A x \in Read : x \in Records /\ x \in table /\ x.ts >= Cutoff
  BY <1>1, <1>4
<1> DEFINE f == [x \in Read |-> Loaded(x)]
<1>6. f \in Surjection(Read, Reloaded)
  BY DEF Surjection, Reloaded
<1> HIDE DEF f
<1>7. IsFiniteSet(Reloaded) /\ Cardinality(Reloaded) <= MaxEntries
  <2>1. IsFiniteSet(Reloaded) /\ Cardinality(Reloaded) <= Cardinality(Read)
    BY <1>4, <1>6, FS_Surjection
  <2>2. Cardinality(Reloaded) \in Nat
    BY <2>1, FS_CardinalityType
  <2> QED BY <1>3, <1>4, <2>1, <2>2
<1>8. \A e \in Reloaded : \E x \in Read : e = Loaded(x)
  BY DEF Reloaded
<1>9. \A e \in Reloaded : \E x \in Read :
         /\ e = Loaded(x) /\ x \in table /\ x \in Records
         /\ e \in Records /\ e.id = x.id /\ e.of = x.of /\ e.ts = x.ts /\ e.back = x.back /\ e.ts >= Cutoff
         /\ e.state # "in_progress"
         /\ e.state = x.state \/ (x.state = "in_progress" /\ e.state = "interrupted")
  <2> TAKE e \in Reloaded
  <2>1. PICK x \in Read : e = Loaded(x)
    BY <1>8
  <2>2. /\ e \in Records /\ e.id = x.id /\ e.of = x.of /\ e.ts = x.ts /\ e.back = x.back
        /\ e.state # "in_progress"
        /\ e.state = x.state \/ (x.state = "in_progress" /\ e.state = "interrupted")
    BY <1>5, <2>1, LoadedFacts
  <2> QED BY <1>5, <2>1, <2>2
<1>10. IdsApart(Reloaded)
  <2> SUFFICES ASSUME NEW e \in Reloaded, NEW g \in Reloaded, e.id = g.id PROVE e = g
    BY DEF IdsApart
  <2>1. PICK x \in Read : e = Loaded(x) /\ e.id = x.id
    BY <1>9
  <2>2. PICK y \in Read : g = Loaded(y) /\ g.id = y.id
    BY <1>9
  <2>3. x = y
    BY <1>1, <1>4, <2>1, <2>2 DEF IdsApart
  <2> QED BY <2>1, <2>2, <2>3
<1>11. \A e \in Reloaded, x \in table : x.id > e.id /\ x.ts >= Cutoff => x.id \in IdsOf(Reloaded)
  <2> SUFFICES ASSUME NEW e \in Reloaded, NEW x \in table, x.id > e.id, x.ts >= Cutoff
               PROVE  x.id \in IdsOf(Reloaded)
    OBVIOUS
  <2>1. PICK y \in Read : e.id = y.id
    BY <1>9
  <2>2. x \in young
    BY DEF young
  <2>3. x \in Read
    <3>1. y \in Newest(young, MaxEntries) /\ x.id > y.id /\ MaxEntries \in Nat
      BY <1>2, <1>3, <2>1
    <3> QED BY <1>1, <1>2, <2>2, <3>1, NewestUp
  <2>4. Loaded(x) \in Reloaded /\ Loaded(x).id = x.id
    BY <1>5, <2>3, LoadedFacts DEF Reloaded
  <2> QED BY <2>4 DEF IdsOf
<1> QED BY <1>7, <1>9, <1>10, <1>11

\* No request runs in the new process, and those that had a record still had one.
LEMMA LostFacts ==
    ASSUME RequestsOk, faults \in Nat, request' = Lost
    PROVE  /\ request' \in [Calls -> [phase : Phases, eid : Nat]]
           /\ \A r \in Calls :
                 /\ request'[r].phase # "running"
                 /\ request[r].phase # "none" => request'[r].phase # "none"
                 /\ faults > 0 => request'[r].phase \in {"none", "unknown"}
                 /\ faults = 0 => \/ request[r].phase = "running" /\ request'[r].phase = "lost"
                                  \/ request[r].phase # "running" /\ request'[r].phase = request[r].phase
<1>1. \A r \in Calls : request[r] \in [phase : Phases, eid : Nat] /\ request[r].phase \in Phases
  BY DEF RequestsOk
<1>2. \A r \in Calls :
         /\ request'[r] \in [phase : Phases, eid : Nat]
         /\ request'[r].phase # "running"
         /\ request[r].phase # "none" => request'[r].phase # "none"
         /\ faults > 0 => request'[r].phase \in {"none", "unknown"}
         /\ faults = 0 => \/ request[r].phase = "running" /\ request'[r].phase = "lost"
                          \/ request[r].phase # "running" /\ request'[r].phase = request[r].phase
  <2> TAKE r \in Calls
  <2>1. CASE request[r].phase = "none"
    <3>1. request'[r] = request[r]
      BY <2>1 DEF Lost
    <3> QED BY <1>1, <2>1, <3>1
  <2>2. CASE request[r].phase # "none" /\ faults > 0
    <3>1. request'[r] = [request[r] EXCEPT !.phase = "unknown"]
      BY <2>2 DEF Lost
    <3> QED BY <1>1, <2>2, <3>1 DEF Phases
  <2>3. CASE request[r].phase = "running" /\ faults = 0
    <3>1. request'[r] = [request[r] EXCEPT !.phase = "lost"]
      BY <2>3 DEF Lost
    <3> QED BY <1>1, <2>3, <3>1 DEF Phases
  <2>4. CASE request[r].phase \notin {"none", "running"} /\ faults = 0
    <3>1. request'[r] = request[r]
      BY <2>4 DEF Lost
    <3> QED BY <1>1, <2>4, <3>1
  <2> QED BY <2>1, <2>2, <2>3, <2>4
<1>3. request' \in [Calls -> [phase : Phases, eid : Nat]]
  <2>1. request' = [r \in Calls |-> request'[r]]
    BY DEF Lost
  <2> QED BY <1>2, <2>1
<1> QED BY <1>2, <1>3

\* The id the sequence goes on from is no smaller than any row's.
LEMMA SequenceFacts ==
    ASSUME TableOk, NEW top, top = IF table = {} THEN 0 ELSE Max(IdsOf(table))
    PROVE  top \in Nat /\ \A x \in table : x.id <= top
<1> DEFINE I == IdsOf(table)
<1>1. \A x \in table : x.id \in Nat \ {0}
  BY RecordFields DEF TableOk
<1>2. CASE table = {}
  BY <1>2
<1>3. CASE table # {}
  <2>1. I \in SUBSET Nat /\ I # {}
    BY <1>1, <1>3 DEF IdsOf
  <2> DEFINE f == [x \in table |-> x.id]
  <2>2. f \in Surjection(table, I)
    BY DEF Surjection, IdsOf
  <2> HIDE DEF f, I
  <2>3. IsFiniteSet(I)
    BY <2>2, FS_Surjection DEF TableOk
  <2>4. Max(I) \in I /\ \A y \in I : y <= Max(I)
    BY <2>1, <2>3, LargestExists
  <2>5. top = Max(I) /\ \A x \in table : x.id \in I
    BY <1>3 DEF I, IdsOf
  <2> QED BY <2>1, <2>4, <2>5
<1> QED BY <1>2, <1>3

\* What a restart leaves in memory and in the table.
Restarted ==
    /\ request' = Lost /\ clock' = clock /\ faults' \in Nat
    /\ faults' = 0 => open' /\ ~warning'
    /\ \A e \in Held' : \E x \in table :
          /\ e.id = x.id /\ e.of = x.of /\ e.state # "in_progress"
          /\ e.state = x.state \/ (x.state = "in_progress" /\ e.state = "interrupted")
    /\ \A x \in table' : x \in Held' \/ (x \in table /\ (faults' = 0 => x.id \notin IdsOf(Held')))

\* A restart puts memory and table in order again.
LEMMA RebootStore ==
    ASSUME StoreOk, Reboot
    PROVE  StoreOk' /\ Restarted
<1>1. /\ request' = Lost /\ clock' = clock
      /\ \/ /\ open' = TRUE
            /\ memory' \in InIdOrder(Reloaded)
            /\ lastId' = IF table = {} THEN 0 ELSE Max(IdsOf(table))
            /\ \/ table' = Trim(Replace(Reloaded)) /\ warning' = FALSE /\ faults' = 0
               \/ faults' = 1 /\ warning' = TRUE /\ table' = table
         \/ /\ faults' = 1 /\ open' = FALSE /\ warning' = TRUE
            /\ memory' = <<>> /\ lastId' = 0 /\ table' = table
  BY DEF Reboot, Reloaded, Read
<1>2. TableOk /\ clock \in 0..MaxClock /\ Cutoff' = Cutoff
  BY <1>1 DEF StoreOk, MemoryOk, Cutoff
<1>3. CASE /\ open' = TRUE
           /\ memory' \in InIdOrder(Reloaded)
           /\ lastId' = IF table = {} THEN 0 ELSE Max(IdsOf(table))
           /\ \/ table' = Trim(Replace(Reloaded)) /\ warning' = FALSE /\ faults' = 0
              \/ faults' = 1 /\ warning' = TRUE /\ table' = table
  <2>1. /\ Reloaded \in SUBSET Records /\ IsFiniteSet(Reloaded) /\ IdsApart(Reloaded)
        /\ Cardinality(Reloaded) <= MaxEntries
        /\ \A e \in Reloaded : \E x \in table :
              /\ e.id = x.id /\ e.of = x.of /\ e.ts = x.ts /\ e.back = x.back /\ e.ts >= Cutoff
              /\ e.state # "in_progress"
              /\ e.state = x.state \/ (x.state = "in_progress" /\ e.state = "interrupted")
        /\ \A e \in Reloaded, x \in table :
              x.id > e.id /\ x.ts >= Cutoff => x.id \in IdsOf(Reloaded)
    BY <1>2, ReloadedFacts
  <2>2. DictOk(memory') /\ Held' = Reloaded /\ Len(memory') <= MaxEntries
    BY <1>3, <2>1, OrderedFacts DEF Held
  <2>3. lastId' \in Nat /\ \A x \in table : x.id <= lastId'
    <3>1. PICK top : top = IF table = {} THEN 0 ELSE Max(IdsOf(table))
      OBVIOUS
    <3>2. top \in Nat /\ \A x \in table : x.id <= top
      BY <1>2, <3>1, SequenceFacts
    <3> QED BY <1>3, <3>1, <3>2
  <2>4. \A x \in Held' : x.id <= lastId'
    BY <2>1, <2>2, <2>3
  <2>5. MemoryOk'
    BY <1>1, <1>2, <2>2, <2>3, <2>4 DEF MemoryOk
  <2>6. CASE table' = Trim(Replace(Reloaded)) /\ warning' = FALSE /\ faults' = 0
    <3>1. /\ Replace(Reloaded) \in SUBSET Records /\ IdsApart(Replace(Reloaded))
          /\ table' \in SUBSET Records /\ IsFiniteSet(table') /\ IdsApart(table')
          /\ \A x \in table' : x \in Held' \/ (x \in table /\ x.id \notin IdsOf(Held'))
      BY <1>2, <2>1, <2>2, <2>6, TrimFacts
    <3>2. TableOk' /\ \A x \in table' : x.id <= lastId'
      BY <2>3, <2>4, <3>1 DEF TableOk
    <3>3. \A e \in Held', x \in table \cup Held' :
             x.id > e.id /\ x.ts >= Cutoff => x.id \in IdsOf(Held')
      BY <2>1, <2>2 DEF IdsOf
    <3>4. Covered'
      BY <1>2, <3>1, <3>3 DEF Covered
    <3>5. LogAgrees'
      <4> SUFFICES ASSUME NEW x \in Held' PROVE x \in table'
        BY DEF LogAgrees
      <4>1. x \in Replace(Reloaded) /\ x.ts >= Cutoff /\ x.id \in IdsOf(Held')
        BY <2>1, <2>2 DEF Replace, IdsOf
      <4>2. \A y \in Replace(Reloaded) : y.ts >= Cutoff /\ y.id > x.id => y.id \in IdsOf(Held')
        BY <2>2, <3>3 DEF Replace
      <4>3. PICK d : d = memory'
        OBVIOUS
      <4>4. /\ d \in Seq(Records) /\ Len(d) <= MaxEntries /\ x.id \in IdsOf(ToSet(d))
            /\ \A y \in Replace(Reloaded) : y.ts >= Cutoff /\ y.id > x.id => y.id \in IdsOf(ToSet(d))
        BY <2>2, <4>1, <4>2, <4>3 DEF Held, DictOk
      <4> QED BY <2>6, <3>1, <4>1, <4>4, TrimKeeps
    <3>6. StoreOk'
      BY <2>5, <3>2, <3>4, <3>5 DEF StoreOk
    <3> QED BY <1>1, <1>3, <2>1, <2>2, <2>6, <3>1, <3>6 DEF Restarted
  <2>7. CASE faults' = 1 /\ warning' = TRUE /\ table' = table
    <3>1. TableOk' /\ \A x \in table' : x.id <= lastId'
      BY <1>2, <2>3, <2>7 DEF TableOk
    <3>2. Covered' /\ LogAgrees'
      BY <1>2, <2>1, <2>2, <2>7 DEF Covered, LogAgrees
    <3>3. StoreOk'
      BY <2>5, <3>1, <3>2 DEF StoreOk
    <3> QED BY <1>1, <2>1, <2>2, <2>7, <3>3 DEF Restarted
  <2> QED BY <1>3, <2>6, <2>7
<1>4. CASE /\ faults' = 1 /\ open' = FALSE /\ warning' = TRUE
           /\ memory' = <<>> /\ lastId' = 0 /\ table' = table
  <2>1. DictOk(memory') /\ Held' = {} /\ Len(memory') <= MaxEntries
    BY <1>4, EmptyDict, LogAssumption DEF Held
  <2>2. MemoryOk' /\ TableOk' /\ Covered' /\ LogAgrees'
    BY <1>1, <1>2, <1>4, <2>1 DEF MemoryOk, TableOk, Covered, LogAgrees
  <2>3. StoreOk'
    BY <1>4, <2>2 DEF StoreOk
  <2> QED BY <1>1, <1>4, <2>1, <2>3 DEF Restarted
<1> QED BY <1>1, <1>3, <1>4

\* A restart keeps what the records say of their requests.
LEMMA RebootInv ==
    ASSUME LogInv, Reboot
    PROVE  LogInv'
<1>1. StoreOk' /\ Restarted
  BY RebootStore DEF LogInv
<1>2. /\ request' = Lost /\ faults' \in Nat /\ (faults' = 0 => open' /\ ~warning')
      /\ \A e \in Held' : \E x \in table :
            /\ e.id = x.id /\ e.of = x.of /\ e.state # "in_progress"
            /\ e.state = x.state \/ (x.state = "in_progress" /\ e.state = "interrupted")
      /\ \A x \in table' : x \in Held' \/ (x \in table /\ (faults' = 0 => x.id \notin IdsOf(Held')))
  BY <1>1 DEF Restarted
<1>3. /\ request' \in [Calls -> [phase : Phases, eid : Nat]]
      /\ \A r \in Calls :
            /\ request'[r].phase # "running"
            /\ request[r].phase # "none" => request'[r].phase # "none"
            /\ faults > 0 => request'[r].phase \in {"none", "unknown"}
            /\ faults = 0 => \/ request[r].phase = "running" /\ request'[r].phase = "lost"
                             \/ request[r].phase # "running" /\ request'[r].phase = request[r].phase
  BY <1>2, LostFacts DEF LogInv, FaultlessOk
<1>4. \A x \in table : x.of \in Calls /\ request[x.of].phase # "none" /\ request'[x.of].phase # "none"
  <2>1. \A x \in table : x.of \in Calls /\ request[x.of].phase # "none"
    BY RecordFields DEF LogInv, StoreOk, TableOk, RequestsOk
  <2> QED BY <1>3, <2>1
<1>5. RequestsOk'
  <2>1. \A x \in Held' \cup table' : request'[x.of].phase # "none"
    BY <1>2, <1>4
  <2> QED BY <1>3, <2>1 DEF RequestsOk
\* What a row says of its request in the new process.
<1>6. \A x \in table :
         \/ request'[x.of].phase = "unknown"
         \/ request'[x.of].phase = "lost" /\ x.state \in {"in_progress", "interrupted"}
         \/ request'[x.of].phase \in Outcomes /\ request'[x.of].phase = x.state
         \/ request'[x.of].phase = request[x.of].phase
            /\ request[x.of].phase \notin {"running", "lost"} \cup Outcomes
  <2> TAKE x \in table
  <2>1. faults \in Nat
    BY DEF LogInv, FaultlessOk
  <2>2. CASE faults > 0
    BY <1>3, <1>4, <2>2
  <2>3. CASE faults = 0
    <3>1. /\ request[x.of].phase = "running" => x.state = "in_progress"
          /\ request[x.of].phase = "lost" => x.state \in {"in_progress", "interrupted"}
          /\ request[x.of].phase \in Outcomes => x.state = request[x.of].phase
      BY <2>3 DEF LogInv, FaultlessOk, RowKept
    <3> QED BY <1>3, <1>4, <2>3, <3>1
  <2> QED BY <2>1, <2>2, <2>3
<1>7. \A e \in Held' : Shown(request'[e.of].phase, e.state)
  <2> TAKE e \in Held'
  <2>1. PICK x \in table :
            /\ e.id = x.id /\ e.of = x.of /\ e.state # "in_progress"
            /\ e.state = x.state \/ (x.state = "in_progress" /\ e.state = "interrupted")
    BY <1>2
  <2>2. request'[x.of].phase # "running"
    BY <1>3, <1>4
  <2>3. CASE request'[x.of].phase \in Outcomes
    BY <1>6, <2>1, <2>2, <2>3 DEF Shown, Outcomes
  <2>4. CASE request'[x.of].phase \notin Outcomes
    BY <1>6, <2>1, <2>2, <2>4 DEF Shown
  <2> QED BY <2>3, <2>4
<1>8. OutcomeKept'
  BY <1>7, OutcomeIsShown
<1>9. \A x \in table' : RowKept(x)'
  <2> TAKE x \in table'
  <2>1. CASE x \in Held'
    <3>1. Shown(request'[x.of].phase, x.state)
      BY <1>7, <2>1
    <3> QED BY <3>1 DEF Shown, RowKept
  <2>2. CASE x \in table
    BY <1>3, <1>4, <1>6, <2>2 DEF RowKept, Outcomes
  <2> QED BY <1>2, <2>1, <2>2
<1>10. FaultlessOk'
  <2>1. ASSUME NEW e \in Held', NEW x \in table', x.id = e.id, faults' = 0 PROVE x = e
    <3>1. x \in Held'
      BY <1>2, <2>1 DEF IdsOf
    <3>2. DictOk(memory')
      BY <1>1 DEF StoreOk, MemoryOk
    <3> QED BY <2>1, <3>1, <3>2, HeldFacts DEF IdsApart, Held
  <2> QED BY <1>2, <1>3, <1>9, <2>1 DEF FaultlessOk
<1> QED BY <1>1, <1>5, <1>8, <1>10 DEF LogInv

-------------------------------------------------------------------------------
(* RequestLog: the theorems. *)

\* The log starts empty, behind an open table.
LEMMA LogInitial == LogInit => LogInv
<1> SUFFICES ASSUME LogInit PROVE LogInv
  OBVIOUS
<1>1. /\ memory = <<>> /\ table = {} /\ open = TRUE /\ warning = FALSE /\ lastId = 0
      /\ request = [r \in Calls |-> [phase |-> "none", eid |-> NoId]] /\ clock = 0 /\ faults = 0
  BY DEF LogInit
<1>2. Held = {} /\ DictOk(memory) /\ Len(memory) <= MaxEntries /\ clock \in 0..MaxClock
  BY <1>1, EmptyDict, LogAssumption DEF Held
<1>3. TableOk
  BY <1>1, EmptyRows DEF TableOk
<1>4. StoreOk
  BY <1>1, <1>2, <1>3 DEF StoreOk, MemoryOk, Covered, LogAgrees
<1>5. RequestsOk
  <2>1. [phase |-> "none", eid |-> NoId] \in [phase : Phases, eid : Nat]
    BY DEF Phases, NoId
  <2>2. request \in [Calls -> [phase : Phases, eid : Nat]] /\ \A r \in Calls : request[r].phase = "none"
    BY <1>1, <2>1
  <2> QED BY <1>1, <1>2, <2>2 DEF RequestsOk
<1>6. FaultlessOk
  BY <1>1, <1>2, <1>5 DEF FaultlessOk
<1>7. OutcomeKept
  BY <1>2, OutcomeIsShown
<1> QED BY <1>4, <1>5, <1>6, <1>7 DEF LogInv

\* Every step of the log keeps the invariant.
LEMMA LogStep == LogInv /\ [LogNext]_logVars => LogInv'
<1> SUFFICES ASSUME LogInv, [LogNext]_logVars PROVE LogInv'
  OBVIOUS
<1>1. ASSUME NEW r \in Calls, Arrive(r) PROVE LogInv'
  BY <1>1, ArriveInv
<1>2. ASSUME NEW r \in Calls, BodyRead(r) PROVE LogInv'
  BY <1>2, BodyReadInv
<1>3. ASSUME NEW r \in Calls, NEW o \in Outcomes, End(r, o) PROVE LogInv'
  BY <1>3, EndInv
<1>4. CASE Clear
  BY <1>4, ClearInv
<1>5. CASE Reboot
  BY <1>5, RebootInv
<1>6. CASE Tick
  BY <1>6, TickInv
<1>7. CASE UNCHANGED logVars
  <2>1. /\ UNCHANGED <<memory, table, open, warning, lastId, request, clock, faults>>
        /\ Held' = Held /\ Cutoff' = Cutoff
    BY <1>7 DEF logVars, Held, Cutoff
  <2>2. StoreOk'
    BY <2>1 DEF LogInv, StoreOk, MemoryOk, TableOk, Covered, LogAgrees
  <2>3. RequestsOk' /\ FaultlessOk' /\ OutcomeKept'
    BY <2>1, OutcomeIsShown DEF LogInv, RequestsOk, FaultlessOk, RowKept
  <2> QED BY <2>2, <2>3 DEF LogInv
<1> QED BY <1>1, <1>2, <1>3, <1>4, <1>5, <1>6, <1>7 DEF LogNext

\* Whatever is written, pruned, cleared, lost or reloaded, memory holds one record
\* per id, no more than it may, and the table one row per id behind it.
THEOREM LogSafety == LogSpec => []LogInv
  BY LogInitial, LogStep, PTL DEF LogSpec

\* While the viewer shows no warning, what it shows is on disk.
THEOREM LogOnDisk == LogSpec => []LogAgrees
<1>1. LogInv => LogAgrees
  BY DEF LogInv, StoreOk
<1> QED BY <1>1, LogSafety, PTL

\* A record tells what became of its request, before and after a restart.
THEOREM OutcomesTold == LogSpec => []OutcomeKept
<1>1. LogInv => OutcomeKept
  BY DEF LogInv
<1> QED BY <1>1, LogSafety, PTL
=============================================================================
