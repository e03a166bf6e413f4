------------------------------ MODULE Content ------------------------------
(***************************************************************************)
(* handlers/public_templates.go and services/content_service.go: one page  *)
(* or guide in its languages, or the list that shows the guide, edited by  *)
(* the staff and read by a client that keeps what it got and asks again    *)
(* with If-None-Match.                                                     *)
(***************************************************************************)
EXTENDS Integers, Sequences

CONSTANTS
    Editor,             \* concurrent edits
    Language,           \* languages that the document may exist in
    DefaultLanguage,    \* the service's default locale
    Asked,              \* languages that the client asks for
    MaxEdits,           \* bound: edits of the document
    MaxSecond           \* bound: seconds

ASSUME ContentAssumption ==
    /\ DefaultLanguage \in Language /\ Asked \subseteq Language
    /\ MaxEdits \in Nat \ {0} /\ MaxSecond \in Nat \ {0}

VARIABLES
    kind,               \* "page", "guide" or "list", chosen once
    documents,          \* [Language -> the stored document, or NoDocument]
    edits,              \* history: the texts that were written, by number
    editing,            \* [Editor -> the document it is about to store]
    second,             \* the clock, in whole seconds
    client,             \* what the client's request is doing
    held                \* [Asked -> tag and text that the client keeps for that URL]

contentVars == <<kind, documents, edits, editing, second, client, held>>

NoDocument == [language |-> DefaultLanguage, text |-> 0, published |-> FALSE, updated |-> 0]
Documents == [language : Language, text : 1..MaxEdits, published : BOOLEAN, updated : 1..MaxSecond]

NoTag == <<>>
Held == [tag |-> NoTag, text |-> 0]
NoRequest == [pc |-> "idle", language |-> DefaultLanguage, found |-> NoDocument]

\* A plausible bug: one language is taken for another.
ETagAnyLanguage(d) == <<d.updated, d.published>>

\* computePageETag, computeGuideETag (which takes the time of publication): neither
\* looks at the text.
ETag(d) == <<d.language, d.updated, d.published>>

\* computeGuideListETag: the language asked for and the guides; an empty list has no tag.
ListETag(d, language) == IF d = NoDocument THEN NoTag ELSE <<language, ETag(d)>>

Tag(d, language) == IF kind = "list" THEN ListETag(d, language) ELSE ETag(d)

ContentTypeOK ==
    /\ kind \in {"page", "guide", "list"}
    /\ documents \in [Language -> Documents \cup {NoDocument}]
    /\ \A l \in Language : documents[l] # NoDocument => documents[l].language = l
    /\ \A n \in DOMAIN edits : edits[n].language \in Language /\ edits[n].updated \in 1..second
    /\ editing \in [Editor -> Documents \cup {NoDocument}]
    /\ second \in 1..MaxSecond
    /\ client.pc \in {"idle", "lookup", "fallback", "answer", "not_modified"} /\ client.language \in Language
    /\ client.found \in Documents \cup {NoDocument}
    /\ \A l \in Asked : held[l].text \in 0..MaxEdits

ContentInit ==
    /\ kind \in {"page", "guide", "list"}
    /\ documents = [l \in Language |-> NoDocument]
    /\ edits = <<>>
    /\ editing = [e \in Editor |-> NoDocument]
    /\ second = 1
    /\ client = NoRequest
    /\ held = [l \in Asked |-> Held]

NextSecond ==
    /\ second < MaxSecond /\ second' = second + 1
    /\ UNCHANGED <<kind, documents, edits, editing, client, held>>

-----------------------------------------------------------------------------
(* The staff.                                                                *)

\* UpsertPage, UpsertGuide: the time of the edit is taken ...
Stamp(e, language, published) ==
    /\ editing[e] = NoDocument /\ Len(edits) < MaxEdits
    /\ edits' = Append(edits, [language |-> language, updated |-> second])
    /\ editing' = [editing EXCEPT ![e] = [language |-> language, text |-> Len(edits) + 1,
                                          published |-> published, updated |-> second]]
    /\ UNCHANGED <<kind, documents, second, client, held>>

\* ... before the document is stored, whatever was stored since.
Upsert(e) ==
    /\ editing[e] # NoDocument
    /\ documents' = [documents EXCEPT ![editing[e].language] = editing[e]]
    /\ editing' = [editing EXCEPT ![e] = NoDocument]
    /\ UNCHANGED <<kind, edits, second, client, held>>

UpsertFails(e) ==
    /\ editing[e] # NoDocument
    /\ editing' = [editing EXCEPT ![e] = NoDocument]
    /\ UNCHANGED <<kind, documents, edits, second, client, held>>

DeleteGuide(language) ==
    /\ kind # "page" /\ documents[language] # NoDocument
    /\ documents' = [documents EXCEPT ![language] = NoDocument]
    /\ UNCHANGED <<kind, edits, editing, second, client, held>>

-----------------------------------------------------------------------------
(* The client.                                                               *)

Ask(language) ==
    /\ client.pc \in {"idle", "not_modified"}
    /\ client' = [NoRequest EXCEPT !.pc = "lookup", !.language = language]
    /\ UNCHANGED <<kind, documents, edits, editing, second, held>>

\* GetPage, GetGuideBySlug: first the language asked for, then the default one.
LookUpDocument(language, from, otherwise) ==
    /\ kind # "list" /\ client.pc = from
    /\ client' = IF documents[language] # NoDocument
                 THEN [client EXCEPT !.pc = "answer", !.found = documents[language]]
                 ELSE IF otherwise = "fallback" THEN [client EXCEPT !.pc = "fallback"]
                 ELSE NoRequest
    /\ UNCHANGED <<kind, documents, edits, editing, second, held>>

Find == LookUpDocument(client.language, "lookup",
                       IF client.language = DefaultLanguage THEN "missing" ELSE "fallback")
FindDefault == LookUpDocument(DefaultLanguage, "fallback", "missing")

\* ListGuides: the repository chooses among the published documents.
FindList ==
    /\ kind = "list" /\ client.pc = "lookup"
    /\ LET own == documents[client.language]
           default == documents[DefaultLanguage]
       IN  client' = [client EXCEPT !.pc = "answer",
                                    !.found = IF own.published THEN own
                                              ELSE IF default.published THEN default
                                              ELSE NoDocument]
    /\ UNCHANGED <<kind, documents, edits, editing, second, held>>

FindFails ==
    /\ client.pc \in {"lookup", "fallback"}
    /\ client' = NoRequest
    /\ UNCHANGED <<kind, documents, edits, editing, second, held>>

\* getPage hides an unpublished page; getGuide and listGuides leave that to the repository.
Visible(d) == kind # "page" \/ d.published

\* The tag is compared with If-None-Match; without a match the document is sent.
AnswerDocument ==
    /\ client.pc = "answer"
    /\ LET tag == Tag(client.found, client.language)
           url == client.language
       IN  \/ /\ ~Visible(client.found)
              /\ client' = NoRequest
              /\ UNCHANGED held
           \/ /\ Visible(client.found) /\ tag # NoTag /\ held[url].tag = tag
              /\ client' = [client EXCEPT !.pc = "not_modified"]
              /\ UNCHANGED held
           \/ /\ Visible(client.found) /\ (tag = NoTag \/ held[url].tag # tag)
              /\ client' = NoRequest
              /\ held' = [held EXCEPT ![url] = [tag |-> tag, text |-> client.found.text]]
    /\ UNCHANGED <<kind, documents, edits, editing, second>>

ContentNext ==
    \/ NextSecond
    \/ \E e \in Editor :
          \/ \E language \in Language, published \in BOOLEAN : Stamp(e, language, published)
          \/ Upsert(e) \/ UpsertFails(e)
    \/ \E language \in Language : DeleteGuide(language)
    \/ \E language \in Asked : Ask(language)
    \/ Find \/ FindDefault \/ FindList \/ FindFails \/ AnswerDocument

ContentSpec == ContentInit /\ [][ContentNext]_contentVars

-----------------------------------------------------------------------------
\* A 304 leaves the client with the text that it would have been sent, however edits,
\* deletions and languages alternate, unless the same language was edited twice within
\* a second, which the tags do not tell apart.
NotModifiedFaithful ==
    client.pc = "not_modified" =>
        LET kept == held[client.language].text
        IN  kept = client.found.text \/ edits[kept] = edits[client.found.text]

=============================================================================
