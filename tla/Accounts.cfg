CONSTANTS
  None = None
  ann = ann
  bob = bob
  annsEntry = annsEntry
  bobsEntry = bobsEntry
  Names = {ann, bob}
  Persons = {annsEntry, bobsEntry}
  Directory <- OneEntry
  Operator = bob
  Guessed = {ann}
  Requests = {r1, r2}
  max_fails = 2
  first_user_admin = TRUE
  MaxUserId = 2
  MaxTokens = 2
  MaxMoves = 1
SPECIFICATION Spec
SYMMETRY Symmetry
INVARIANT TypeOK
INVARIANT BoundedGuesses
INVARIANT AdminRemains
INVARIANT RevocationHolds
INVARIANT SessionsAreOwned
