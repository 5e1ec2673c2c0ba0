--------------------------- MODULE Catalogue_proofs ---------------------------
(***************************************************************************)
(* What the catalogue shows is allowed, and a withdrawn film is not shown   *)
(* for long, for every set of films, every time to live of an answer, any   *)
(* number of changes and of requests that meet.                             *)
(***************************************************************************)
EXTENDS Catalogue, TLAPS

-----------------------------------------------------------------------------
(* Lists and the check of one film.                                         *)

\* The categories of a list are the types that the check of a single film lets pass,
\* or none where the list is refused.
LEMMA CategoriesAgree ==
  ASSUME NEW P \in Viewer, Categories(P) # {}
  PROVE  Categories(P) = {t \in Type : MayView(t, P)}
<1>1. CASE "CRUD_FILMS" \in P
  BY <1>1 DEF Categories, MayView, Type
<1>2. CASE "CRUD_FILMS" \notin P /\ "PAID_FILMS" \in P
  BY <1>2 DEF Categories, MayView, Type
<1>3. CASE P \cap {"CRUD_FILMS", "PAID_FILMS"} = {} /\ "FREE_FILMS" \in P
  BY <1>3 DEF Categories, MayView, Type
<1>4. CASE P \cap Permission = {}
  <2>1. Categories(P) = {}
    BY <1>4 DEF Categories, Permission
  <2> QED BY <2>1
<1> QED BY <1>1, <1>2, <1>3, <1>4 DEF Viewer, Permission

-----------------------------------------------------------------------------
(* The inductive invariant.                                                 *)

\* The types that a film may have in the answer under a key.
Carries(k) == {t \in Type : /\ k[1] = "list" => t \in k[2]
                            /\ k[1] = "recs" => t # "ARCHIVED"}

\* With the history L of the types, a film that is in the answer had its type there at
\* the time at or later, and one that is missing in a list, or in its number of pages,
\* one outside of the list.
Entry(L, k, val, at) ==
  \A f \in Film :
    /\ val[f] # None => val[f] \in Carries(k) /\ L[f][val[f]] >= at
    /\ val[f] = None /\ k[1] \in {"list", "total"} =>
         \E t \in Type \ k[2] : L[f][t] >= at

Clock == catNow \in Nat /\ catNow >= 1

Index ==
  /\ filmType \in [Film -> Type]
  /\ lastAs \in [Film -> [Type -> Nat]]
  /\ \A f \in Film : lastAs[f][filmType[f]] = catNow
  /\ \A f \in Film, t \in Type : lastAs[f][t] <= catNow

\* An answer ends FilmsCacheLife after it was put, and the task that puts it ends no
\* later than the clock after the look at the index.
Cached ==
  /\ answers \in [Key -> [val : Films, end : Nat]]
  /\ \A k \in Key : Live(k) => Entry(lastAs, k, answers[k].val, answers[k].end - FilmsCacheLife - 1)

Putting ==
  /\ puts \subseteq [key : Key, val : Films, at : Nat]
  /\ \A p \in puts : p.at + 1 >= catNow /\ Entry(lastAs, p.key, p.val, p.at)

QueryStep == {"none", "genres", "llm", "embedding", "films", "store"}

Querying ==
  /\ query \in [step : QueryStep, films : Films, at : Nat]
  /\ query.step # "none" => query.at + 1 >= catNow /\ query.at <= catNow
  /\ query.step = "none" => query.films = NoFilms
  /\ \A f \in Film : query.films[f] # None =>
       /\ query.films[f] \in Type \ {"ARCHIVED"}
       /\ lastAs[f][query.films[f]] >= query.at

CatInv == Clock /\ Index /\ Cached /\ Putting /\ Querying

-----------------------------------------------------------------------------
(* Answers keep what they say while the index changes.                      *)

History == [Film -> [Type -> Nat]]

Later(L, M) == \A f \in Film, t \in Type : M[f][t] >= L[f][t]

\* An answer that said so of a later time, with a shorter history, still says so.
LEMMA EntryStays ==
  ASSUME NEW L \in History, NEW M \in History, Later(L, M),
         NEW k, NEW val, NEW at \in Int, NEW since \in Int, since <= at,
         Entry(L, k, val, at)
  PROVE  Entry(M, k, val, since)
<1> SUFFICES ASSUME NEW f \in Film
             PROVE  /\ val[f] # None => val[f] \in Carries(k) /\ M[f][val[f]] >= since
                    /\ val[f] = None /\ k[1] \in {"list", "total"} =>
                         \E t \in Type \ k[2] : M[f][t] >= since
  BY DEF Entry
<1>1. \A t \in Type : L[f][t] \in Nat /\ M[f][t] \in Nat /\ M[f][t] >= L[f][t]
  BY DEF History, Later
<1>2. val[f] # None => val[f] \in Carries(k) /\ L[f][val[f]] >= at
  BY DEF Entry
<1>3. val[f] = None /\ k[1] \in {"list", "total"} => \E t \in Type \ k[2] : L[f][t] >= at
  BY DEF Entry
<1>4. val[f] # None => M[f][val[f]] >= since
  BY <1>1, <1>2 DEF Carries
<1>5. ASSUME NEW t \in Type \ k[2], L[f][t] >= at
      PROVE  M[f][t] >= since
  BY <1>1, <1>5
<1> QED BY <1>2, <1>3, <1>4, <1>5

\* An answer that agrees with the index as it is says so of now.
LEMMA EntryMade ==
  ASSUME Clock, Index, NEW k, NEW val,
         \A f \in Film : val[f] # None => val[f] = filmType[f] /\ filmType[f] \in Carries(k),
         \A f \in Film : val[f] = None /\ k[1] \in {"list", "total"} => filmType[f] \notin k[2]
  PROVE  Entry(lastAs, k, val, catNow)
<1>1. \A f \in Film : filmType[f] \in Type /\ lastAs[f][filmType[f]] >= catNow
  BY DEF Index, Clock
<1> QED BY <1>1 DEF Entry

\* A request that does not find an answer leaves one that says so of now.
LEMMA AnswerKeeps ==
  ASSUME CatInv, NEW k \in Key, NEW films \in Films, Entry(lastAs, k, films, catNow),
         Answer(k, films)
  PROVE  CatInv'
<1> DEFINE made == [key |-> k, val |-> films, at |-> catNow]
<1>1. UNCHANGED <<catNow, filmType, lastAs, answers, query>>
  BY DEF Answer
<1>2. puts' = puts \cup {made}
  BY DEF Answer
<1>3. Clock' /\ Index' /\ Cached' /\ Querying'
  BY <1>1 DEF CatInv, Clock, Index, Cached, Live, Querying
<1>4. made \in [key : Key, val : Films, at : Nat] /\ made.at + 1 >= catNow
  BY DEF CatInv, Clock
<1>5. Entry(lastAs, made.key, made.val, made.at)
  OBVIOUS
<1> HIDE DEF made
<1>6. Putting'
  BY <1>1, <1>2, <1>4, <1>5 DEF CatInv, Putting
<1> QED BY <1>3, <1>6 DEF CatInv

\* Every query leaves an answer that agrees with the index.
LEMMA RequestKeeps ==
  ASSUME CatAssumption, CatInv,
         \/ \E f \in Film : GetFilmById(f)
         \/ \E P \in Viewer : GetListFilm(P) \/ GetTotalPages(P)
         \/ GetRecommendedFilms \/ GetTrendsFilms
         \/ GetPersonById \/ GetPersonByIdFilms \/ GetPersonBySearch
  PROVE  CatInv'
<1>1. \A f \in Film : filmType[f] \in Type /\ filmType[f] # None
  BY DEF CatInv, Index, CatAssumption
<1>2. NoFilms \in Films /\ \A S : Among(S) \in Films /\ OfType(S) \in Films
  BY <1>1 DEF NoFilms, Films, Among, OfType
<1>3. Clock /\ Index
  BY DEF CatInv
<1>4. ASSUME NEW f \in Film, GetFilmById(f) PROVE CatInv'
  <2> DEFINE films == [NoFilms EXCEPT ![f] = filmType[f]]
  <2>1. films \in Films /\ FilmKey(f) \in Key
    BY <1>1 DEF NoFilms, Films, Key
  <2>2. \A g \in Film : films[g] # None => films[g] = filmType[g]
    BY DEF NoFilms
  <2>3. Carries(FilmKey(f)) = Type /\ FilmKey(f)[1] \notin {"list", "total"}
    BY DEF Carries, FilmKey
  <2>4. Entry(lastAs, FilmKey(f), films, catNow)
    BY <1>1, <1>3, <2>2, <2>3, EntryMade
  <2> QED BY <1>4, <2>1, <2>4, AnswerKeeps DEF GetFilmById
<1>5. ASSUME NEW P \in Viewer, GetListFilm(P) \/ GetTotalPages(P) PROVE CatInv'
  <2> DEFINE C == Categories(P)
  <2>1. ListKey(C) \in Key /\ TotalKey(C) \in Key /\ OfType(C) \in Films
    BY <1>2 DEF Key
  <2>2. \A f \in Film : /\ OfType(C)[f] # None => OfType(C)[f] = filmType[f] /\ filmType[f] \in C
                        /\ OfType(C)[f] = None => filmType[f] \notin C
    BY <1>1 DEF OfType
  <2>3. Carries(ListKey(C)) = {t \in Type : t \in C} /\ Carries(TotalKey(C)) = Type
    BY DEF Carries, ListKey, TotalKey
  <2>4. ListKey(C)[2] = C /\ TotalKey(C)[2] = C
    BY DEF ListKey, TotalKey
  <2> HIDE DEF C
  <2>5. Entry(lastAs, ListKey(C), OfType(C), catNow) /\ Entry(lastAs, TotalKey(C), OfType(C), catNow)
    BY <1>1, <1>3, <2>2, <2>3, <2>4, EntryMade
  <2>6. Answer(ListKey(C), OfType(C)) \/ Answer(TotalKey(C), OfType(C))
    BY <1>5 DEF GetListFilm, GetTotalPages, InList, InTotal, C
  <2> QED BY <2>1, <2>5, <2>6, AnswerKeeps
<1>6. CASE GetRecommendedFilms
  <2> DEFINE k == <<"recs", "user">>
  <2>1. k \in Key /\ ByVectors \in Films
    BY <1>2 DEF Key, ByVectors
  <2>2. \A f \in Film : ByVectors[f] # None => ByVectors[f] = filmType[f] /\ filmType[f] # "ARCHIVED"
    BY DEF ByVectors, OfType
  <2>3. Carries(k) = Type \ {"ARCHIVED"} /\ k[1] \notin {"list", "total"}
    BY DEF Carries
  <2>4. Entry(lastAs, k, ByVectors, catNow)
    BY <1>1, <1>3, <2>2, <2>3, EntryMade
  <2> QED BY <1>6, <2>1, <2>4, AnswerKeeps DEF GetRecommendedFilms
<1>7. ASSUME NEW k \in Shared, NEW S, Answer(k, Among(S)) PROVE CatInv'
  <2>1. k \in Key /\ Among(S) \in Films
    BY <1>2 DEF Key
  <2>2. \A f \in Film : Among(S)[f] # None => Among(S)[f] = filmType[f]
    BY DEF Among
  <2>3. Carries(k) = Type /\ k[1] \notin {"list", "total"}
    BY DEF Carries, Shared
  <2>4. Entry(lastAs, k, Among(S), catNow)
    BY <1>1, <1>3, <2>2, <2>3, EntryMade
  <2> QED BY <1>7, <2>1, <2>4, AnswerKeeps
<1>8. GetTrendsFilms => \E S : Answer(<<"trends", "period">>, Among(S))
  BY DEF GetTrendsFilms, ByIds
<1>9. GetPersonById \/ GetPersonByIdFilms \/ GetPersonBySearch =>
        \E S : \/ Answer(<<"person", "id">>, Among(S))
              \/ Answer(<<"person", "films">>, Among(S))
              \/ Answer(<<"person", "search">>, Among(S))
  BY DEF GetPersonById, GetPersonByIdFilms, GetPersonBySearch, WithPerson, FilmsPerson, WithPersons
<1>10. Shared = {<<"trends", "period">>, <<"person", "id">>, <<"person", "films">>,
                 <<"person", "search">>}
  BY DEF Shared
<1> QED BY <1>4, <1>5, <1>6, <1>7, <1>8, <1>9, <1>10

-----------------------------------------------------------------------------
(* The other steps.                                                         *)

\* A task that puts its answer gives it the rest of the life it is allowed.
LEMMA PutKeeps ==
  ASSUME CatAssumption, CatInv, NEW p \in puts, Put(p) \/ PutFails(p)
  PROVE  CatInv'
<1>1. UNCHANGED <<catNow, filmType, lastAs, query>> /\ puts' = puts \ {p}
  BY DEF Put, PutFails
<1>2. Clock' /\ Index' /\ Querying'
  BY <1>1 DEF CatInv, Clock, Index, Querying
<1>3. Putting'
  BY <1>1 DEF CatInv, Putting
<1>4. ASSUME Put(p) PROVE Cached'
  <2> DEFINE new == [val |-> p.val, end |-> catNow + FilmsCacheLife]
  <2>1. answers' = [answers EXCEPT ![p.key] = new]
    BY <1>4 DEF Put
  <2>2. /\ p \in [key : Key, val : Films, at : Nat] /\ p.at + 1 >= catNow
        /\ Entry(lastAs, p.key, p.val, p.at)
    BY DEF CatInv, Putting
  <2>3. new \in [val : Films, end : Nat]
    BY <2>2 DEF CatInv, Clock, CatAssumption
  <2>4. new.val = p.val /\ new.end - FilmsCacheLife - 1 \in Int
          /\ new.end - FilmsCacheLife - 1 <= p.at
    BY <2>2 DEF CatInv, Clock, CatAssumption
  <2> HIDE DEF new
  <2>5. answers \in [Key -> [val : Films, end : Nat]]
    BY DEF CatInv, Cached
  <2>6. answers' \in [Key -> [val : Films, end : Nat]]
    BY <2>1, <2>3, <2>5
  <2>7. lastAs \in History /\ Later(lastAs, lastAs)
    BY DEF CatInv, Index, History, Later
  <2>8. Entry(lastAs, p.key, new.val, new.end - FilmsCacheLife - 1)
    <3>1. p.at \in Int
      BY <2>2
    <3> QED BY <2>2, <2>4, <2>7, <3>1, EntryStays
  <2>9. ASSUME NEW k \in Key, Live(k)'
        PROVE  Entry(lastAs, k, answers'[k].val, answers'[k].end - FilmsCacheLife - 1)
    <3>1. CASE k = p.key
      <4>1. answers'[k] = new
        BY <2>1, <2>5, <3>1
      <4> QED BY <2>8, <3>1, <4>1
    <3>2. CASE k # p.key
      <4>1. answers'[k] = answers[k]
        BY <2>1, <2>5, <3>2
      <4>2. Live(k)
        BY <1>1, <2>9, <4>1 DEF Live
      <4> QED BY <4>1, <4>2 DEF CatInv, Cached
    <3> QED BY <3>1, <3>2
  <2> QED BY <1>1, <2>6, <2>9 DEF Cached
<1>5. ASSUME PutFails(p) PROVE Cached'
  BY <1>1, <1>5 DEF PutFails, CatInv, Cached, Live
<1> QED BY <1>2, <1>3, <1>4, <1>5 DEF CatInv

\* nl-consumer holds films that it was given while the request lasts.
LEMMA QueryKeeps ==
  ASSUME CatAssumption, CatInv,
         Ask \/ FetchGenres \/ ExecuteNlp \/ FetchEmbedding \/ FetchFilms \/ WriteResult \/ QueryFails
  PROVE  CatInv'
<1>1. UNCHANGED <<catNow, filmType, lastAs, answers, puts>>
  BY DEF Ask, FetchGenres, ExecuteNlp, FetchEmbedding, FetchFilms, WriteResult, QueryFails, Ended
<1>2. Clock' /\ Index' /\ Cached' /\ Putting'
  BY <1>1 DEF CatInv, Clock, Index, Cached, Live, Putting
<1>3. /\ query \in [step : QueryStep, films : Films, at : Nat]
      /\ catNow \in Nat /\ \A f \in Film : filmType[f] \in Type /\ lastAs[f][filmType[f]] = catNow
  BY DEF CatInv, Clock, Index, Querying
<1>4. NoFilms \in Films /\ \A f \in Film : NoFilms[f] = None
  BY DEF NoFilms, Films
<1>5. CASE Ask
  <2>1. query.films = NoFilms /\ query' = [query EXCEPT !.step = "genres", !.at = catNow]
    BY <1>5 DEF Ask, CatInv, Querying
  <2>2. query' \in [step : QueryStep, films : Films, at : Nat] /\ query'.films = NoFilms
          /\ query'.step = "genres" /\ query'.at = catNow
    BY <1>3, <2>1 DEF QueryStep
  <2> QED BY <1>1, <1>2, <1>3, <1>4, <2>2 DEF CatInv, Querying
<1>6. CASE FetchGenres \/ ExecuteNlp \/ FetchEmbedding
  <2>1. PICK s \in QueryStep : /\ s # "none" /\ query.step # "none"
                            /\ query' = [query EXCEPT !.step = s]
    BY <1>6 DEF FetchGenres, ExecuteNlp, FetchEmbedding, QueryStep
  <2>2. query' \in [step : QueryStep, films : Films, at : Nat] /\ query'.films = query.films
          /\ query'.step = s /\ query'.at = query.at
    BY <1>3, <2>1
  <2> QED BY <1>1, <1>2, <2>1, <2>2 DEF CatInv, Querying
<1>7. CASE FetchFilms
  <2> DEFINE films == OfType(Type \ {"ARCHIVED"})
  <2>1. query.step = "films" /\ query' = [query EXCEPT !.step = "store", !.films = films]
    BY <1>7 DEF FetchFilms, GetFilmsByVector, ByVector
  <2>2. films \in Films
    BY <1>3 DEF OfType, Films
  <2>3. \A f \in Film : films[f] # None => films[f] = filmType[f] /\ filmType[f] # "ARCHIVED"
    BY DEF OfType
  <2> HIDE DEF films
  <2>4. query' \in [step : QueryStep, films : Films, at : Nat] /\ query'.films = films
          /\ query'.step = "store" /\ query'.at = query.at
    BY <1>3, <2>1, <2>2 DEF QueryStep
  <2>5. query.at \in Nat /\ query.at + 1 >= catNow /\ query.at <= catNow
    BY <1>3, <2>1 DEF CatInv, Querying
  <2> QED BY <1>1, <1>2, <1>3, <2>3, <2>4, <2>5 DEF CatInv, Querying
<1>8. CASE WriteResult \/ QueryFails
  <2>1. query' = [step |-> "none", films |-> NoFilms, at |-> 0]
    BY <1>8 DEF WriteResult, QueryFails, Ended
  <2> QED BY <1>1, <1>2, <1>4, <2>1 DEF CatInv, Querying, QueryStep
<1> QED BY <1>5, <1>6, <1>7, <1>8

\* The history only grows, and the clock goes on only when no task and no request is
\* older than it.
LEMMA WorldKeeps ==
  ASSUME CatAssumption, CatInv,
         (\E f \in Film, t \in Type : SetType(f, t)) \/ CatTick
  PROVE  CatInv'
<1>1. /\ catNow \in Nat /\ catNow >= 1
      /\ filmType \in [Film -> Type] /\ lastAs \in History
      /\ \A f \in Film : lastAs[f][filmType[f]] = catNow
      /\ \A f \in Film, t \in Type : lastAs[f][t] \in Nat /\ lastAs[f][t] <= catNow
  BY DEF CatInv, Clock, Index, History
<1>2. /\ answers \in [Key -> [val : Films, end : Nat]]
      /\ puts \subseteq [key : Key, val : Films, at : Nat]
      /\ query \in [step : QueryStep, films : Films, at : Nat]
  BY DEF CatInv, Cached, Putting, Querying
<1>3. ASSUME NEW f \in Film, NEW t \in Type, SetType(f, t)
      PROVE  /\ Clock' /\ Index' /\ Later(lastAs, lastAs')
             /\ \A k \in Key : Live(k)' => Live(k) /\ answers'[k] = answers[k]
             /\ answers' \in [Key -> [val : Films, end : Nat]]
             /\ UNCHANGED <<puts, query>>
             /\ \A p \in puts : p.at + 1 >= catNow'
             /\ query.step # "none" => query.at + 1 >= catNow' /\ query.at <= catNow'
  <2>1. /\ filmType' = [filmType EXCEPT ![f] = t]
        /\ lastAs' = [lastAs EXCEPT ![f] = [@ EXCEPT ![filmType[f]] = catNow, ![t] = catNow]]
        /\ UNCHANGED <<catNow, answers, puts, query>>
    BY <1>3 DEF SetType
  <2>2. filmType' \in [Film -> Type] /\ lastAs' \in History
    BY <1>1, <2>1 DEF History
  <2>3. \A g \in Film : lastAs'[g] =
          IF g = f THEN [lastAs[f] EXCEPT ![filmType[f]] = catNow, ![t] = catNow] ELSE lastAs[g]
    BY <1>1, <2>1 DEF History
  <2>4. \A s \in Type : lastAs'[f][s] = IF s \in {t, filmType[f]} THEN catNow ELSE lastAs[f][s]
    BY <1>1, <2>3 DEF History
  <2>5. \A g \in Film, s \in Type : lastAs'[g][s] >= lastAs[g][s] /\ lastAs'[g][s] <= catNow
    BY <1>1, <2>3, <2>4
  <2>6. \A g \in Film : lastAs'[g][filmType'[g]] = catNow
    BY <1>1, <2>1, <2>3, <2>4
  <2>7. Index'
    BY <2>1, <2>2, <2>5, <2>6 DEF Index, History
  <2>8. Clock' /\ Later(lastAs, lastAs') /\ \A k \in Key : Live(k)' => Live(k)
    BY <1>1, <2>1, <2>5 DEF Clock, Later, Live
  <2> QED BY <1>2, <2>1, <2>7, <2>8 DEF CatInv, Putting, Querying
<1>4. ASSUME CatTick
      PROVE  /\ Clock' /\ Index' /\ Later(lastAs, lastAs')
             /\ \A k \in Key : Live(k)' => Live(k) /\ answers'[k] = answers[k]
             /\ answers' \in [Key -> [val : Films, end : Nat]]
             /\ UNCHANGED <<puts, query>>
             /\ \A p \in puts : p.at + 1 >= catNow'
             /\ query.step # "none" => query.at + 1 >= catNow' /\ query.at <= catNow'
  <2>1. /\ catNow' = catNow + 1
        /\ \A p \in puts : p.at = catNow
        /\ query.step = "none" \/ query.at = catNow
        /\ lastAs' = [f \in Film |-> [lastAs[f] EXCEPT ![filmType[f]] = catNow + 1]]
        /\ answers' = [k \in Key |-> IF answers[k].end > catNow + 1 THEN answers[k] ELSE NoAnswer]
        /\ UNCHANGED <<filmType, puts, query>>
    BY <1>4 DEF CatTick
  <2>2. \A g \in Film : lastAs'[g] = [lastAs[g] EXCEPT ![filmType[g]] = catNow + 1]
    BY <2>1
  <2>3. \A g \in Film, s \in Type :
          lastAs'[g][s] = IF s = filmType[g] THEN catNow + 1 ELSE lastAs[g][s]
    <3> TAKE g \in Film, s \in Type
    <3>1. lastAs[g] \in [Type -> Nat] /\ lastAs'[g] = [lastAs[g] EXCEPT ![filmType[g]] = catNow + 1]
      BY <1>1, <2>2 DEF History
    <3> QED BY <3>1
  <2>4. lastAs' \in History
    BY <1>1, <2>1 DEF History
  <2>5. \A g \in Film, s \in Type : lastAs'[g][s] >= lastAs[g][s] /\ lastAs'[g][s] <= catNow + 1
    BY <1>1, <2>3
  <2>6. Clock' /\ Index' /\ Later(lastAs, lastAs')
    BY <1>1, <2>1, <2>3, <2>4, <2>5 DEF Clock, Index, History, Later
  <2>7. NoAnswer \in [val : Films, end : Nat] /\ NoAnswer.end = 0
    BY DEF NoAnswer, NoFilms, Films
  <2>8. answers' \in [Key -> [val : Films, end : Nat]]
    BY <1>2, <2>1, <2>7
  <2>9. \A k \in Key : answers'[k] = IF answers[k].end > catNow + 1 THEN answers[k] ELSE NoAnswer
    BY <2>1
  <2>10. ASSUME NEW k \in Key, Live(k)' PROVE Live(k) /\ answers'[k] = answers[k]
    <3>1. answers'[k].end > catNow + 1
      BY <2>1, <2>10 DEF Live
    <3>2. answers'[k] = answers[k]
      BY <1>1, <2>7, <2>9, <3>1
    <3>3. answers[k].end \in Nat
      BY <1>2
    <3> QED BY <1>1, <3>1, <3>2, <3>3 DEF Live
  <2> QED BY <1>1, <1>2, <2>1, <2>6, <2>8, <2>10
<1>5. /\ Clock' /\ Index' /\ Later(lastAs, lastAs')
      /\ \A k \in Key : Live(k)' => Live(k) /\ answers'[k] = answers[k]
      /\ answers' \in [Key -> [val : Films, end : Nat]]
      /\ UNCHANGED <<puts, query>>
      /\ \A p \in puts : p.at + 1 >= catNow'
      /\ query.step # "none" => query.at + 1 >= catNow' /\ query.at <= catNow'
  BY <1>3, <1>4
<1>6. lastAs' \in History
  BY <1>5 DEF Index, History
<1>7. Cached'
  <2>1. ASSUME NEW k \in Key, Live(k)'
        PROVE  Entry(lastAs', k, answers'[k].val, answers'[k].end - FilmsCacheLife - 1)
    <3>1. Entry(lastAs, k, answers[k].val, answers[k].end - FilmsCacheLife - 1)
      BY <1>5, <2>1 DEF CatInv, Cached
    <3>2. answers[k].end - FilmsCacheLife - 1 \in Int
      BY <1>2 DEF CatAssumption
    <3>3. Entry(lastAs', k, answers[k].val, answers[k].end - FilmsCacheLife - 1)
      BY <1>1, <1>5, <1>6, <3>1, <3>2, EntryStays
    <3> QED BY <1>5, <2>1, <3>3
  <2> QED BY <1>5, <2>1 DEF Cached
<1>8. Putting'
  <2>1. ASSUME NEW p \in puts PROVE Entry(lastAs', p.key, p.val, p.at)
    BY <1>1, <1>2, <1>5, <1>6, EntryStays DEF CatInv, Putting
  <2> QED BY <1>2, <1>5, <2>1 DEF Putting
<1>9. Querying'
  <2>1. ASSUME NEW f \in Film, query.films[f] # None
        PROVE  /\ query.films[f] \in Type \ {"ARCHIVED"}
               /\ lastAs'[f][query.films[f]] >= query.at
    <3>1. query.films[f] \in Type \ {"ARCHIVED"} /\ lastAs[f][query.films[f]] >= query.at
      BY <2>1 DEF CatInv, Querying
    <3>2. lastAs'[f][query.films[f]] >= lastAs[f][query.films[f]]
      BY <1>5, <3>1 DEF Later
    <3>3. lastAs[f][query.films[f]] \in Nat /\ lastAs'[f][query.films[f]] \in Nat /\ query.at \in Nat
      BY <1>1, <1>2, <1>6, <3>1 DEF History
    <3> QED BY <3>1, <3>2, <3>3
  <2>2. query.step = "none" => query.films = NoFilms
    BY DEF CatInv, Querying
  <2> QED BY <1>2, <1>5, <2>1, <2>2 DEF Querying
<1> QED BY <1>5, <1>7, <1>8, <1>9 DEF CatInv

-----------------------------------------------------------------------------
(* The theorems.                                                            *)

\* Every step of the cache, of nl-consumer and of the index keeps the invariant.
LEMMA CatInductive ==
  ASSUME CatAssumption
  PROVE  /\ Init => CatInv
         /\ CatInv /\ [Next]_catVars => CatInv'
<1>1. Init => CatInv
  <2> SUFFICES ASSUME Init PROVE CatInv
    OBVIOUS
  <2>1. /\ filmType \in [Film -> Type]
        /\ lastAs = [f \in Film |-> [t \in Type |-> IF t = filmType[f] THEN 1 ELSE 0]]
        /\ catNow = 1
    BY DEF Init
  <2>2. Clock /\ Index
    BY <2>1 DEF Clock, Index
  <2>3. NoAnswer \in [val : Films, end : Nat] /\ NoAnswer.end = 0
    BY DEF NoAnswer, NoFilms, Films
  <2>4. Cached
    BY <2>1, <2>3 DEF Init, Cached, Live
  <2>5. Putting
    BY DEF Init, Putting
  <2>6. Querying
    BY DEF Init, Querying, QueryStep, NoFilms, Films
  <2> QED BY <2>2, <2>4, <2>5, <2>6 DEF CatInv
<1>2. CatInv /\ Next => CatInv'
  <2> SUFFICES ASSUME CatInv, Next PROVE CatInv'
    OBVIOUS
  <2>1. CASE \/ \E f \in Film : GetFilmById(f)
             \/ \E P \in Viewer : GetListFilm(P) \/ GetTotalPages(P)
             \/ GetRecommendedFilms \/ GetTrendsFilms
             \/ GetPersonById \/ GetPersonByIdFilms \/ GetPersonBySearch
    BY <2>1, RequestKeeps
  <2>2. CASE \E p \in puts : Put(p) \/ PutFails(p)
    BY <2>2, PutKeeps
  <2>3. CASE Ask \/ FetchGenres \/ ExecuteNlp \/ FetchEmbedding \/ FetchFilms
               \/ WriteResult \/ QueryFails
    BY <2>3, QueryKeeps
  <2>4. CASE (\E f \in Film, t \in Type : SetType(f, t)) \/ CatTick
    BY <2>4, WorldKeeps
  <2> QED BY <2>1, <2>2, <2>3, <2>4 DEF Next
<1>3. CatInv /\ UNCHANGED catVars => CatInv'
  BY DEF catVars, CatInv, Clock, Index, Cached, Live, Putting, Querying
<1> QED BY <1>1, <1>2, <1>3

\* What an answer in Redis shows a user is of a type that the user may be shown there.
LEMMA SeenIsAllowed ==
  ASSUME CatInv, NEW P \in Viewer, NEW k \in Key, NEW f \in Film, Sees(P, k, f)
  PROVE  /\ answers[k].val[f] \in Allowed(P, k)
         /\ lastAs[f][answers[k].val[f]] >= answers[k].end - FilmsCacheLife - 1
<1> DEFINE t == answers[k].val[f]
<1>1. t # None /\ Live(k) /\ Asks(P, k) /\ (k[1] = "film" => MayView(t, P))
  BY DEF Sees
<1>2. t \in Carries(k) /\ lastAs[f][t] >= answers[k].end - FilmsCacheLife - 1
  BY <1>1 DEF CatInv, Cached, Entry
<1> HIDE DEF t
<1>3. CASE k[1] = "film"
  <2>1. Allowed(P, k) = {s \in Type : MayView(s, P)}
    BY <1>3 DEF Allowed
  <2> QED BY <1>1, <1>2, <1>3, <2>1 DEF Carries, t
<1>4. CASE k[1] = "recs"
  <2>1. Allowed(P, k) = Type \ {"ARCHIVED"}
    BY <1>4 DEF Allowed
  <2> QED BY <1>2, <1>4, <2>1 DEF Carries, t
<1>5. CASE k[1] \in {"trends", "person"}
  <2>1. Allowed(P, k) = Type
    BY <1>5 DEF Allowed
  <2> QED BY <1>2, <2>1 DEF Carries, t
<1>6. CASE Categories(P) # {} /\ k = ListKey(Categories(P))
  <2>1. k[1] = "list" /\ k[2] = Categories(P)
    BY <1>6 DEF ListKey
  <2>2. Allowed(P, k) = {s \in Type : MayView(s, P)}
    BY <2>1 DEF Allowed
  <2> QED BY <1>2, <1>6, <2>1, <2>2, CategoriesAgree DEF Carries, t
<1> QED BY <1>1, <1>3, <1>4, <1>5, <1>6 DEF Asks

\* Whoever has filled the cache, no user is shown a film of a type that is hidden from
\* them: for any films, any life of an answer and any number of requests that meet.
THEOREM CatalogueAllowed == Spec => []ShownIsAllowed
<1> USE CatAssumption
<1>1. CatInv => ShownIsAllowed
  <2> SUFFICES ASSUME CatInv, NEW P \in Viewer, NEW f \in Film
               PROVE  /\ \A k \in Key : Sees(P, k, f) => answers[k].val[f] \in Allowed(P, k)
                      /\ ByQuery(Categories(P))[f] # None => MayView(filmType[f], P)
    BY DEF ShownIsAllowed
  <2>1. \A k \in Key : Sees(P, k, f) => answers[k].val[f] \in Allowed(P, k)
    BY SeenIsAllowed
  <2>2. ByQuery(Categories(P))[f] # None => filmType[f] \in Categories(P)
    BY DEF ByQuery, OfType
  <2>3. filmType[f] \in Categories(P) => MayView(filmType[f], P)
    BY CategoriesAgree
  <2> QED BY <2>1, <2>2, <2>3
<1> QED BY <1>1, CatInductive, PTL DEF Spec

\* A film whose type was changed is shown for no longer than FilmsCacheLife and the unit
\* in which a background task ends, and is missing in a list for no longer: whatever
\* requests, tasks and changes of the type meet.
THEOREM CatalogueRestriction == Spec => []RestrictionTakesHold
<1> USE CatAssumption
<1>1. CatInv => RestrictionTakesHold
  <2> SUFFICES ASSUME CatInv PROVE RestrictionTakesHold
    OBVIOUS
  <2>1. /\ catNow \in Nat /\ lastAs \in History
        /\ answers \in [Key -> [val : Films, end : Nat]] /\ FilmsCacheLife \in Nat
    BY DEF CatInv, Clock, Index, History, Cached, CatAssumption
  <2>2. ASSUME NEW P \in Viewer, NEW k \in Key, NEW f \in Film, Sees(P, k, f)
        PROVE  ~Without(f, Allowed(P, k))
    <3> DEFINE t == answers[k].val[f]
    <3>1. t \in Allowed(P, k) /\ lastAs[f][t] >= answers[k].end - FilmsCacheLife - 1
      BY <2>2, SeenIsAllowed
    <3>2. t \in Type
      BY <2>2 DEF Sees, CatInv, Cached, Entry, Carries
    <3>3. answers[k].end > catNow
      BY <2>2 DEF Sees, Live
    <3> HIDE DEF t
    <3>4. ~(lastAs[f][t] + FilmsCacheLife + 1 <= catNow)
      BY <2>1, <3>1, <3>2, <3>3 DEF History
    <3> QED BY <3>1, <3>4 DEF Without
  <2>3. ASSUME NEW P \in Viewer, NEW f \in Film,
               NEW k \in {ListKey(Categories(P)), TotalKey(Categories(P))},
               Live(k), Without(f, Type \ Categories(P))
        PROVE  answers[k].val[f] # None
    <3> SUFFICES ASSUME answers[k].val[f] = None PROVE FALSE
      OBVIOUS
    <3>1. k[1] \in {"list", "total"} /\ k[2] = Categories(P) /\ k \in Key
      BY DEF ListKey, TotalKey, Key
    <3>2. PICK t \in Type \ Categories(P) :
             lastAs[f][t] >= answers[k].end - FilmsCacheLife - 1
      BY <2>3, <3>1 DEF CatInv, Cached, Entry
    <3>3. lastAs[f][t] + FilmsCacheLife + 1 <= catNow
      BY <2>3 DEF Without
    <3>4. answers[k].end > catNow /\ answers[k].end \in Nat /\ lastAs[f][t] \in Nat
      BY <2>1, <2>3, <3>1 DEF Live, History
    <3> QED BY <2>1, <3>2, <3>3, <3>4
  <2> QED BY <2>2, <2>3 DEF RestrictionTakesHold
<1> QED BY <1>1, CatInductive, PTL DEF Spec
=============================================================================
