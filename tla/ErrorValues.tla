----------------------------- MODULE ErrorValues -----------------------------
(***************************************************************************)
(* The error values of errors/errors.go and what callers ask of them.      *)
(*                                                                         *)
(* An error is the list of the errors that errors.Is and errors.As visit,  *)
(* in their order: itself first, then what each Unwrap gives.  size is the *)
(* number of errors an element stands above, itself included, so that the  *)
(* tree can be read off the list.  nil is the empty list.  The texts of    *)
(* the messages are left out.                                              *)
(***************************************************************************)
EXTENDS Naturals, Sequences, FiniteSetsExt

CONSTANTS
  Statuses,    \* the HTTP statuses in use; among them 404
  OwnCode,     \* an application code given explicitly
  MaxNodes     \* the bound on the size of an error

ASSUME StatusAssumption == 404 \in Statuses /\ MaxNodes \in Nat \ {0}

VARIABLE err
errVars == <<err>>

Node(kind, status, code, below) ==
  <<[kind |-> kind, status |-> status, code |-> code, size |-> Len(below) + 1]>>
    \o below

\* Errors without anything below them: an error of another package, GORM's
\* ErrRecordNotFound, NewNotFoundError, and Errors, which has no Unwrap.
Leaf(kind) == Node(kind, 0, 0, <<>>)
Collected(status, code) == Node("Errors", status, code, <<>>)

\* errorWrapper, and the one that is the variable NotFoundError.
Wrapper(status, code, e) == Node("errorWrapper", status, code, e)
NotFoundError == Node("NotFoundError", 404, 404, Leaf("plain"))

\* errors.WithMessage of github.com/pkg/errors, fmt.Errorf with %w; errors.Join.
Messaged(e) == Node("message", 0, 0, e)
Joined(d, e) == Node("join", 0, 0, d \o e)

\* With and NewError: the code is the status unless one is given.
CodeOf(status, given) == IF given THEN OwnCode ELSE status

IsWrapper(n) == n.kind \in {"errorWrapper", "NotFoundError"}
IsError(n) == IsWrapper(n) \/ n.kind = "Errors"

\* errors.Is for a kind that is one value; errors.As: the first that fits, or 0.
IsIn(e, kind) == \E i \in DOMAIN e : e[i].kind = kind
FirstOf(S) == IF S = {} THEN 0 ELSE Min(S)
FirstWrapper(e, lo, hi) == FirstOf({i \in lo .. hi : IsWrapper(e[i])})
AsWrapper(e) == FirstWrapper(e, 1, Len(e))
AsError(e) == FirstOf({i \in DOMAIN e : IsError(e[i])})

Below(e, i) == SubSeq(e, i + 1, i + e[i].size - 1)

\* Mutant: the message is added to what the wrapper holds, without a wrapper.
WithMessageUnwrapped(e) ==
  LET w == AsWrapper(e)
      a == AsError(e)
  IN  IF w # 0 THEN Messaged(Below(e, w))
      ELSE IF a # 0 THEN Wrapper(e[a].status, e[a].code, Messaged(e))
      ELSE IF IsIn(e, "ErrRecordNotFound") THEN Wrapper(404, 404, Messaged(e))
      ELSE Messaged(e)

\* WithMessage: a wrapper is replaced by one around the annotated inner error,
\* dropping whatever stood above or beside it.
WithMessage(e) ==
  LET w == AsWrapper(e)
      a == AsError(e)
  IN  IF w # 0 THEN Wrapper(e[w].status, e[w].code, Messaged(Below(e, w)))
      ELSE IF a # 0 THEN Wrapper(e[a].status, e[a].code, Messaged(e))
      ELSE IF IsIn(e, "ErrRecordNotFound") THEN Wrapper(404, 404, Messaged(e))
      ELSE Messaged(e)

\* IsNotFount: the sentinels anywhere, or a wrapper with status 404, looking at
\* the first wrapper and then at the first below it; 0 is where there is none.
Searched(e) ==
  LET at[i \in 0 .. Len(e)] ==
        IF i = 0 \/ e[i].status = 404 THEN i
        ELSE at[FirstWrapper(e, i + 1, i + e[i].size - 1)]
  IN  at

Sentinels == {"NotFoundError", "ErrRecordNotFound", "notFoundError"}

IsNotFount(e) ==
  (\E k \in Sentinels : IsIn(e, k)) \/ Searched(e)[AsWrapper(e)] # 0

Leaves ==
  {Leaf("plain"), Leaf("ErrRecordNotFound"), Leaf("notFoundError"), NotFoundError}
    \cup {Wrapper(s, CodeOf(s, g), Leaf("plain")) : s \in Statuses, g \in BOOLEAN}

ErrInit == err = <<>>

\* An error arises: New, NewError, NewNotFoundError or one of another package.
ErrArises == err = <<>> /\ \E e \in Leaves : err' = e

\* On its way up it is wrapped, annotated, joined to another, or collected.
ErrWith(s, g) == err # <<>> /\ err' = Wrapper(s, CodeOf(s, g), err)
ErrWithMessageText(s, g) ==
  err # <<>> /\ err' = Wrapper(s, CodeOf(s, g), Messaged(err))
ErrWithMessage == err # <<>> /\ err' = WithMessage(err)
ErrWrapped == err # <<>> /\ err' = Messaged(err)
ErrJoin == err # <<>> /\ \E e \in Leaves : err' \in {Joined(err, e), Joined(e, err)}

\* NewErrors and Append: nil is not appended, and an Errors without errors is
\* not returned as an error (HasError).
ErrCollect(s, g) == err # <<>> /\ err' = Collected(s, CodeOf(s, g))

\* The error is handled.
ErrHandled == err # <<>> /\ err' = <<>>

ErrNext ==
  \/ ErrHandled
  \/ /\ \/ ErrArises \/ ErrWithMessage \/ ErrWrapped \/ ErrJoin
        \/ \E s \in Statuses, g \in BOOLEAN :
             ErrWith(s, g) \/ ErrWithMessageText(s, g) \/ ErrCollect(s, g)
     /\ Len(err') <= MaxNodes

ErrSpec == ErrInit /\ [][ErrNext]_errVars

-----------------------------------------------------------------------------
(* Properties.                                                             *)

\* "WithMessage annotates err with a message while preserving Error code and
\* status when err implements Error": of an error that was not joined it keeps
\* the status and code a caller finds with errors.As, it keeps the cause at
\* the end of the chain, and what was not found before is not found after,
\* although the wrapper itself, and NotFoundError with it, is replaced.
MessageKeepsMeaning ==
  err # <<>> /\ ~IsIn(err, "join") =>
    LET m == WithMessage(err)
        a == AsError(err)
        b == AsError(m)
    IN  /\ a # 0 => /\ b # 0
                    /\ m[b].status = err[a].status /\ m[b].code = err[a].code
        /\ m[Len(m)].kind = err[Len(err)].kind
        /\ IsNotFount(err) => IsNotFount(m)
=============================================================================
