------------------------------- MODULE Library -------------------------------
(***************************************************************************)
(* The school library: a count of copies per title and one row per loan    *)
(* (apps/api/src/library/library.service.ts).  Both of its operations are  *)
(* one transaction whose first statement claims the row it is about, so    *)
(* librarians working at once are an interleaving of whole operations.     *)
(***************************************************************************)
EXTENDS Naturals, FiniteSets

CONSTANTS
    Books,     \* ids of Book
    BookLoans, \* ids of BookLoan
    MaxCopies  \* bound: copies of a title

ASSUME BookLoansAssumption == IsFiniteSet(BookLoans)
ASSUME MaxCopiesAssumption == MaxCopies \in Nat

VARIABLES
    book,  \* table Book: totalCopies, availableCopies
    loan   \* table BookLoan: its rows

libraryVars == <<book, loan>>

NoBook == [listed |-> FALSE, totalCopies |-> 0, availableCopies |-> 0]

LibraryInit == book = [b \in Books |-> NoBook] /\ loan = {}

CreateBook(b, n) ==
    /\ ~book[b].listed
    /\ book' = [book EXCEPT ![b] =
          [listed |-> TRUE, totalCopies |-> n, availableCopies |-> n]]
    /\ UNCHANGED loan

(* Broken variant: a copy is claimed without looking whether there is one. *)
ListedBook(b) == book[b].listed
(* The WHERE clause of the claim of a copy. *)
OnShelf(b) == book[b].availableCopies > 0

Borrow(b, l) ==
    /\ OnShelf(b)
    /\ \A r \in loan : r.id # l
    /\ book' = [book EXCEPT ![b].availableCopies = @ - 1]
    /\ loan' = loan \cup {[id |-> l, book |-> b, returned |-> FALSE]}

(* Broken variant: the claim of a loan has lost "returnedAt IS NULL". *)
ReturnableTwice(r) == r \in loan
(* The WHERE clause of the claim that makes a return happen once. *)
StillLent(r) == r \in loan /\ ~r.returned

ReturnBook(r) ==
    /\ StillLent(r)
    /\ loan' = (loan \ {r}) \cup {[r EXCEPT !.returned = TRUE]}
    /\ book' = [book EXCEPT ![r.book].availableCopies = @ + 1]

LibraryNext ==
    \/ \E b \in Books, n \in 1..MaxCopies : CreateBook(b, n)
    \/ \E b \in Books, l \in BookLoans : Borrow(b, l)
    \/ \E r \in loan : ReturnBook(r)

LibrarySpec == LibraryInit /\ [][LibraryNext]_libraryVars

------------------------------------------------------------------------------
(* Rows have the shape the schema gives them, and ids are unique.  The     *)
(* column is a plain integer: nothing in the database keeps it in bounds.  *)
LibraryTypeOK ==
    /\ book \in [Books -> [listed : BOOLEAN, totalCopies : 0..MaxCopies,
                           availableCopies : 0..MaxCopies]]
    /\ loan \subseteq [id : BookLoans, book : Books, returned : BOOLEAN]
    /\ \A r, s \in loan : r.id = s.id => r = s

Lent == {r \in loan : ~r.returned}
LentOf(b) == {r \in Lent : r.book = b}

(* No copy is invented and none is lost: what is on the shelf and what is  *)
(* lent out make up what the library owns, however often a return is       *)
(* tapped and however many librarians issue the last copy.                 *)
CopiesAgree ==
    \A b \in Books :
        book[b].availableCopies + Cardinality(LentOf(b)) = book[b].totalCopies

(* The service implements the store room, one copy to a loan. *)
CopiesHeld == [b \in Books |-> book[b].totalCopies]
CopiesLent == {[loan |-> r.id, thing |-> r.book, units |-> 1] : r \in Lent}
LibraryPool == INSTANCE StockPool WITH Things <- Books, Loans <- BookLoans,
                                       Quantities <- 0..MaxCopies,
                                       held <- CopiesHeld, out <- CopiesLent
LibraryImplementsPool == LibraryPool!Spec
==============================================================================
