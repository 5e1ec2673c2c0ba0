------------------------------ MODULE Catalogue ------------------------------
(***************************************************************************)
(* async-api: films from the index of Elasticsearch, shown to whom their    *)
(* type and the permissions in the token allow, over answers in Redis; and  *)
(* nl-consumer, which asks for films in the words of a user.                *)
(*                                                                          *)
(* Permissions are looked at when a film is shown, its type when the answer *)
(* was made. An answer is put into Redis by a background task.              *)
(***************************************************************************)
EXTENDS Integers, FiniteSets

CONSTANTS
  Film, None,
  FilmsCacheLife,    \* cache_expire_in_seconds
  MaxCatTime, MaxChanges, MaxKeys  \* bounds on the clock, on changes of a type and on
                                   \* the answers in use at a time

VARIABLES
  catNow, changes,
  filmType,   \* the type of a film in the index
  lastAs,     \* when a film last had a type
  answers,    \* the answers in Redis
  puts,       \* background tasks that put one there
  query       \* the request of nl-consumer, with the films it was given

catVars == <<catNow, changes, filmType, lastAs, answers, puts, query>>

Type       == {"FREE", "PAID", "ARCHIVED"}
Permission == {"FREE_FILMS", "PAID_FILMS", "CRUD_FILMS"}

\* An answer lives for a number of seconds, and a film that is missing in one has no type.
ASSUME CatAssumption == FilmsCacheLife \in Nat /\ None \notin Type

-----------------------------------------------------------------------------
(* Who may see what.                                                        *)

\* _validate_film_for_user, for one film.
MayView(t, P) ==
  \/ t = "FREE"
  \/ t = "PAID"     /\ P \cap {"PAID_FILMS", "CRUD_FILMS"} # {}
  \/ t = "ARCHIVED" /\ "CRUD_FILMS" \in P

\* _get_categories_for_permissions, for a list; none means that it is refused.
Categories(P) ==
  CASE "CRUD_FILMS" \in P -> Type
    [] "CRUD_FILMS" \notin P /\ "PAID_FILMS" \in P -> {"PAID", "FREE"}
    [] P \cap {"CRUD_FILMS", "PAID_FILMS"} = {} /\ "FREE_FILMS" \in P -> {"FREE"}
    [] P \cap Permission = {} -> {}

Viewer == SUBSET Permission

-----------------------------------------------------------------------------
(* What the index holds, as the queries of the repositories see it: a film   *)
(* with its type, or None.                                                  *)

NoFilms == [f \in Film |-> None]

OfType(C) == [f \in Film |-> IF filmType[f] \in C THEN filmType[f] ELSE None]
Among(S) == [f \in Film |-> IF f \in S THEN filmType[f] ELSE None]

\* get_list_film and get_total_films filter by the categories, and so does a search.
InList(C) == OfType(C)
InTotal(C) == OfType(C)
ByQuery(C) == OfType(C)

\* A search by one vector or by several leaves archived films out.
ByVector == OfType(Type \ {"ARCHIVED"})
ByVectors == OfType(Type \ {"ARCHIVED"})

\* The search by a vector is for other services only, and has no cache.
GetFilmsByVector == ByVector

\* The films of a list of film_id, and those of a person, are of any type.
ByIds(S) == Among(S)
WithPerson(S) == Among(S)
WithPersons(S) == Among(S)
FilmsPerson(S) == Among(S)

-----------------------------------------------------------------------------
(* Answers in Redis. One key stands for all pages and orders of a list.      *)

FilmKey(f) == <<"film", f>>

\* Mutation: the categories are no part of the key.
ListKey_shared(C) == <<"list", Type>>

ListKey(C) == <<"list", C>>

TotalKey(C) == <<"total", C>>

Shared == {<<"trends", "period">>, <<"person", "id">>, <<"person", "films">>,
           <<"person", "search">>}

Key == {FilmKey(f) : f \in Film}
         \cup {ListKey(Categories(P)) : P \in Viewer} \cup {TotalKey(Categories(P)) : P \in Viewer}
         \cup Shared \cup {<<"recs", "user">>}

NoAnswer == [val |-> NoFilms, end |-> 0]

Init ==
  /\ catNow = 1 /\ changes = 0
  /\ filmType \in [Film -> Type]
  /\ lastAs = [f \in Film |-> [t \in Type |-> IF t = filmType[f] THEN 1 ELSE 0]]
  /\ answers = [k \in Key |-> NoAnswer]
  /\ puts = {}
  /\ query = [step |-> "none", films |-> NoFilms, at |-> 0]

Live(k) == answers[k].end > catNow

InUse == Cardinality(puts) + Cardinality({l \in Key : Live(l)})
           + IF query.step = "none" THEN 0 ELSE 1

\* A miss: what the index holds now is answered, and put into Redis if there is any.
Answer(k, films) ==
  /\ ~Live(k)
  /\ films # NoFilms /\ InUse < MaxKeys
  /\ puts' = puts \cup {[key |-> k, val |-> films, at |-> catNow]}
  /\ UNCHANGED <<catNow, changes, filmType, lastAs, answers, query>>

\* The type is checked after the answer was put.
GetFilmById(f) == Answer(FilmKey(f), [NoFilms EXCEPT ![f] = filmType[f]])

GetListFilm(P) ==
  /\ Categories(P) # {}
  /\ Answer(ListKey(Categories(P)), InList(Categories(P)))

\* The number of pages, which decides whether the list is asked for at all.
GetTotalPages(P) ==
  /\ Categories(P) # {}
  /\ Answer(TotalKey(Categories(P)), InTotal(Categories(P)))

GetRecommendedFilms == Answer(<<"recs", "user">>, ByVectors)

\* statistic-service names films that were watched or scored, whatever became of them,
\* and none when ClickHouse does not answer.
FetchTrendsFilms == SUBSET Film

GetTrendsFilms == \E S \in FetchTrendsFilms : Answer(<<"trends", "period">>, ByIds(S))

GetPersonById == \E S \in SUBSET Film : Answer(<<"person", "id">>, WithPerson(S))
GetPersonByIdFilms == \E S \in SUBSET Film : Answer(<<"person", "films">>, FilmsPerson(S))
GetPersonBySearch  == \E S \in SUBSET Film : Answer(<<"person", "search">>, WithPersons(S))

\* Mutation: an answer stays in Redis.
Put_forever(p) ==
  /\ answers' = [answers EXCEPT ![p.key] = [val |-> p.val, end |-> MaxCatTime + 1]]
  /\ puts' = puts \ {p}
  /\ UNCHANGED <<catNow, changes, filmType, lastAs, query>>

Put(p) ==
  /\ answers' = [answers EXCEPT ![p.key] = [val |-> p.val, end |-> catNow + FilmsCacheLife]]
  /\ puts' = puts \ {p}
  /\ UNCHANGED <<catNow, changes, filmType, lastAs, query>>

PutFails(p) ==
  /\ puts' = puts \ {p}
  /\ UNCHANGED <<catNow, changes, filmType, lastAs, answers, query>>

-----------------------------------------------------------------------------
(* nl-consumer: genres, the model, the embedding, the films and the row, one *)
(* after the other. A failure of any ends the request: the exceptions that   *)
(* the suppliers raise are not those that the retries wait for.              *)

Ask ==
  /\ query.step = "none" /\ InUse < MaxKeys
  /\ query' = [query EXCEPT !.step = "genres", !.at = catNow]
  /\ UNCHANGED <<catNow, changes, filmType, lastAs, answers, puts>>

FetchGenres ==
  /\ query.step = "genres"
  /\ query' = [query EXCEPT !.step = "llm"]
  /\ UNCHANGED <<catNow, changes, filmType, lastAs, answers, puts>>

\* The model understands the request, or asks for another one, which is stored too.
ExecuteNlp ==
  /\ query.step = "llm"
  /\ \E s \in {"embedding", "store"} : query' = [query EXCEPT !.step = s]
  /\ UNCHANGED <<catNow, changes, filmType, lastAs, answers, puts>>

FetchEmbedding ==
  /\ query.step = "embedding"
  /\ query' = [query EXCEPT !.step = "films"]
  /\ UNCHANGED <<catNow, changes, filmType, lastAs, answers, puts>>

FetchFilms ==
  /\ query.step = "films"
  /\ query' = [query EXCEPT !.step = "store", !.films = GetFilmsByVector]
  /\ UNCHANGED <<catNow, changes, filmType, lastAs, answers, puts>>

Ended ==
  /\ query' = [step |-> "none", films |-> NoFilms, at |-> 0]
  /\ UNCHANGED <<catNow, changes, filmType, lastAs, answers, puts>>

\* The row is written, after which the user sees the films.
WriteResult == query.step = "store" /\ Ended

QueryFails == query.step # "none" /\ Ended

-----------------------------------------------------------------------------
(* The index, filled from the admin panel, and time.                        *)

SetType(f, t) ==
  /\ changes < MaxChanges /\ t # filmType[f]
  /\ changes' = changes + 1
  /\ filmType' = [filmType EXCEPT ![f] = t]
  /\ lastAs' = [lastAs EXCEPT ![f] = [@ EXCEPT ![filmType[f]] = catNow, ![t] = catNow]]
  /\ UNCHANGED <<catNow, answers, puts, query>>

\* A background task and a request take less than the unit of the clock.
CatTick ==
  /\ catNow < MaxCatTime /\ catNow' = catNow + 1
  /\ \A p \in puts : p.at = catNow
  /\ query.step = "none" \/ query.at = catNow
  /\ lastAs' = [f \in Film |-> [lastAs[f] EXCEPT ![filmType[f]] = catNow + 1]]
  /\ answers' = [k \in Key |-> IF answers[k].end > catNow + 1 THEN answers[k] ELSE NoAnswer]
  /\ UNCHANGED <<changes, filmType, puts, query>>

Next ==
  \/ \E f \in Film : GetFilmById(f) \/ \E t \in Type : SetType(f, t)
  \/ \E P \in Viewer : GetListFilm(P) \/ GetTotalPages(P)
  \/ GetRecommendedFilms \/ GetTrendsFilms
  \/ GetPersonById \/ GetPersonByIdFilms \/ GetPersonBySearch
  \/ \E p \in puts : Put(p) \/ PutFails(p)
  \/ Ask \/ FetchGenres \/ ExecuteNlp \/ FetchEmbedding \/ FetchFilms \/ WriteResult \/ QueryFails
  \/ CatTick

Spec == Init /\ [][Next]_catVars

-----------------------------------------------------------------------------
(* Properties.                                                              *)

Films == [Film -> Type \cup {None}]

TypeOK ==
  /\ catNow \in 1 .. MaxCatTime /\ changes \in 0 .. MaxChanges
  /\ filmType \in [Film -> Type]
  /\ lastAs \in [Film -> [Type -> 0 .. MaxCatTime]]
  /\ answers \in [Key -> [val : Films, end : Nat]]
  /\ puts \subseteq [key : Key, val : Films, at : 1 .. MaxCatTime]
  /\ query.films \in Films
  /\ query.step \in {"none", "genres", "llm", "embedding", "films", "store"}

\* The key from which a user with the permissions P is answered.
Asks(P, k) == \/ k[1] \in {"film", "recs", "trends", "person"}
              \/ Categories(P) # {} /\ k = ListKey(Categories(P))

\* What the user sees of the answer: a film alone is checked, a list is not.
Sees(P, k, f) == /\ Live(k) /\ Asks(P, k) /\ answers[k].val[f] # None
                 /\ k[1] = "film" => MayView(answers[k].val[f], P)

\* The types that the user may be shown this way: the recommendations are for all who
\* have logged in, the films of a person and the trends for all.
Allowed(P, k) == CASE k[1] \in {"film", "list"}     -> {t \in Type : MayView(t, P)}
                   [] k[1] = "recs"                 -> Type \ {"ARCHIVED"}
                   [] k[1] \in {"trends", "person"} -> Type

\* Whoever has filled the cache, nobody is shown a film whose type in the answer is
\* hidden from them: the lists, their keys and the search agree with the check of a
\* single film, for every set of permissions.
ShownIsAllowed ==
  \A P \in Viewer, f \in Film :
    /\ \A k \in Key : Sees(P, k, f) => answers[k].val[f] \in Allowed(P, k)
    /\ ByQuery(Categories(P))[f] # None => MayView(filmType[f], P)

\* For how long a film has not had a type of C, and was not shown as one.
Without(f, C) == \A t \in C : lastAs[f][t] + FilmsCacheLife + 1 <= catNow

\* A film that was withdrawn from a user is not seen longer than an answer lives, and
\* the time of a background task; a film that was given to them is missing in their
\* list, and in the number of its pages, no longer than that.
RestrictionTakesHold ==
  /\ \A P \in Viewer, k \in Key, f \in Film : Sees(P, k, f) => ~Without(f, Allowed(P, k))
  /\ \A P \in Viewer, f \in Film :
       LET C == Categories(P)
       IN  \A k \in {ListKey(C), TotalKey(C)} :
             C # {} /\ Live(k) /\ Without(f, Type \ C) => answers[k].val[f] # None
=============================================================================
